---- MODULE Spec2Model ----
(***************************************************************************)
(* Locale registry, locale planner and translation orchestrator of the     *)
(* screenshot-localization pipeline (translate-screenshots tool).          *)
(*                                                                         *)
(* SpecPlan explores the planner (getTargetLocales /                       *)
(* prepareLocalesForTranslation) over bounded locale lists.                *)
(* Spec explores whole runs of handleTranslateScreenshots, including the   *)
(* sequential execution loop of translateImagesWithProgress and the        *)
(* fan-out writes of translateImage, over a small product.                 *)
(***************************************************************************)
EXTENDS Integers, Sequences, FiniteSets, TLC

\* ------------------------------------------------------------------------
\* Bounds
\* ------------------------------------------------------------------------
MaxPlanLen == 4       \* longest product locale list explored by SpecPlan
MaxShots == 2         \* screenshots of the primary locale, phone and tablet together
MaxRuns == 2          \* consecutive invocations of the handler on one product
MaxExisting == 2      \* output files already in the tree when a dry run starts
MaxFaults == 1        \* failing translateImage calls over all runs

\* ------------------------------------------------------------------------
\* Generic list helpers (Array.prototype.includes; filter is SelectSeq)
\* ------------------------------------------------------------------------
Includes(s, x) == \E i \in 1..Len(s) : s[i] = x

Range(s) == {s[i] : i \in 1..Len(s)}

RECURSIVE Flatten(_)
Flatten(ss) == IF ss = <<>> THEN <<>> ELSE Head(ss) \o Flatten(Tail(ss))

\* all sequences over S of length 0..n
RECURSIVE SeqsUpTo(_, _)
SeqsUpTo(S, n) ==
  IF n = 0 THEN {<<>>}
  ELSE LET shorter == SeqsUpTo(S, n - 1)
       IN shorter \cup {Append(s, x) : s \in {t \in shorter : Len(t) = n - 1},
                                        x \in S}

NoDup(s) == \A i, j \in 1..Len(s) : i # j => s[i] # s[j]

\* the reordering of list s by the permutation p of its indexes
Reorder(s, p) == [i \in 1..Len(s) |-> s[p[i]]]

Null == "null"

\* ------------------------------------------------------------------------
\* Locale registry (locale-mapping.constants.ts)
\* ------------------------------------------------------------------------
GEMINI_LOCALE_GROUPS_Shared ==
  << [key |-> "en-US", locales |-> <<"en-US", "en-AU", "en-CA", "en-GB", "en-IN", "en-SG", "en-ZA">>],
     [key |-> "ar-EG", locales |-> <<"ar">>],
     [key |-> "de-DE", locales |-> <<"de-DE">>],
     [key |-> "es-MX", locales |-> <<"es-419", "es-ES", "es-US">>],
     [key |-> "fr-FR", locales |-> <<"fr-FR", "fr-CA", "es-ES">>],
     [key |-> "hi-IN", locales |-> <<"hi-IN">>],
     [key |-> "id-ID", locales |-> <<"id-ID">>],
     [key |-> "it-IT", locales |-> <<"it-IT">>],
     [key |-> "ja-JP", locales |-> <<"ja-JP">>],
     [key |-> "ko-KR", locales |-> <<"ko-KR">>],
     [key |-> "pt-BR", locales |-> <<"pt-BR", "pt-PT">>],
     [key |-> "ru-RU", locales |-> <<"ru-RU">>],
     [key |-> "ua-UA", locales |-> <<"uk-UA">>],
     [key |-> "vi-VN", locales |-> <<"vi-VN">>],
     [key |-> "zh-CN", locales |-> <<"zh-Hans", "zh-Hant", "zh-HK">>] >>

\* The entries of the object literal, in declaration order (the order
\* Object.entries walks them).
GEMINI_LOCALE_GROUPS ==
  << [key |-> "en-US", locales |-> <<"en-US", "en-AU", "en-CA", "en-GB", "en-IN", "en-SG", "en-ZA">>],
     [key |-> "ar-EG", locales |-> <<"ar">>],
     [key |-> "de-DE", locales |-> <<"de-DE">>],
     [key |-> "es-MX", locales |-> <<"es-419", "es-ES", "es-US">>],
     [key |-> "fr-FR", locales |-> <<"fr-FR", "fr-CA">>],
     [key |-> "hi-IN", locales |-> <<"hi-IN">>],
     [key |-> "id-ID", locales |-> <<"id-ID">>],
     [key |-> "it-IT", locales |-> <<"it-IT">>],
     [key |-> "ja-JP", locales |-> <<"ja-JP">>],
     [key |-> "ko-KR", locales |-> <<"ko-KR">>],
     [key |-> "pt-BR", locales |-> <<"pt-BR", "pt-PT">>],
     [key |-> "ru-RU", locales |-> <<"ru-RU">>],
     [key |-> "ua-UA", locales |-> <<"uk-UA">>],
     [key |-> "vi-VN", locales |-> <<"vi-VN">>],
     [key |-> "zh-CN", locales |-> <<"zh-Hans", "zh-Hant", "zh-HK">>] >>

GEMINI_TARGET_LOCALES ==
  << "en-US", "ar-EG", "de-DE", "es-MX", "fr-FR", "hi-IN", "id-ID", "it-IT",
     "ja-JP", "ko-KR", "pt-BR", "ru-RU", "ua-UA", "vi-VN", "zh-CN" >>

getGeminiLocaleAcceptingKeys(unifiedLocale) ==
  LET hits == {i \in 1..Len(GEMINI_LOCALE_GROUPS) :
                 \/ Includes(GEMINI_LOCALE_GROUPS[i].locales, unifiedLocale)
                 \/ GEMINI_LOCALE_GROUPS[i].key = unifiedLocale}
  IN IF hits = {} THEN Null
     ELSE GEMINI_LOCALE_GROUPS[CHOOSE i \in hits : \A j \in hits : i <= j].key

\* getGeminiLocale: the key of the first entry whose member list includes
\* the locale, null when no entry does.
getGeminiLocale(unifiedLocale) ==
  LET hits == {i \in 1..Len(GEMINI_LOCALE_GROUPS) :
                 Includes(GEMINI_LOCALE_GROUPS[i].locales, unifiedLocale)}
  IN IF hits = {} THEN Null
     ELSE GEMINI_LOCALE_GROUPS[CHOOSE i \in hits : \A j \in hits : i <= j].key

\* getOutputLocales: GEMINI_LOCALE_GROUPS[geminiLocale] || []
getOutputLocales(geminiLocale) ==
  LET hits == {i \in 1..Len(GEMINI_LOCALE_GROUPS) :
                 GEMINI_LOCALE_GROUPS[i].key = geminiLocale}
  IN IF hits = {} THEN <<>>
     ELSE GEMINI_LOCALE_GROUPS[CHOOSE i \in hits : TRUE].locales

isGeminiTranslatable(locale) == getGeminiLocale(locale) # Null

\* every unified locale named by the registry
RegistryLocales ==
  UNION {Range(GEMINI_LOCALE_GROUPS[i].locales) : i \in 1..Len(GEMINI_LOCALE_GROUPS)}

\* ------------------------------------------------------------------------
\* Locale planner (prepareLocalesForTranslation, getTargetLocales)
\* ------------------------------------------------------------------------
\* A JS Map is kept as the list of its entries in insertion order.
MapHas(m, k) == \E i \in 1..Len(m) : m[i].key = k

MapGet(m, k) ==
  IF MapHas(m, k) THEN m[CHOOSE i \in 1..Len(m) : m[i].key = k].locales ELSE <<>>

MapSet(m, k, v) ==
  IF MapHas(m, k)
  THEN [i \in 1..Len(m) |-> IF m[i].key = k THEN [key |-> k, locales |-> v] ELSE m[i]]
  ELSE Append(m, [key |-> k, locales |-> v])

MapKeys(m) == [i \in 1..Len(m) |-> m[i].key]

\* a JS Set kept as the list of its elements in insertion order
SetAdd(s, x) == IF Includes(s, x) THEN s ELSE Append(s, x)

GroupStepKeyedByLocale(acc, locale) ==
  LET geminiLocale == getGeminiLocale(locale)
  IN IF geminiLocale = Null
     THEN [acc EXCEPT !.skippedLocales = Append(@, locale)]
     ELSE LET existing == MapGet(acc.localeMapping, geminiLocale)
              pushed == IF Includes(existing, locale) THEN existing
                        ELSE Append(existing, locale)
          IN [acc EXCEPT
                !.geminiLocalesNeeded = SetAdd(@, geminiLocale),
                !.localeMapping = MapSet(@, locale, pushed)]

\* one iteration of the grouping loop (lines 143-159)
GroupStep(acc, locale) ==
  LET geminiLocale == getGeminiLocale(locale)
  IN IF geminiLocale = Null
     THEN [acc EXCEPT !.skippedLocales = Append(@, locale)]
     ELSE LET existing == MapGet(acc.localeMapping, geminiLocale)
              pushed == IF Includes(existing, locale) THEN existing
                        ELSE Append(existing, locale)
          IN [acc EXCEPT
                !.geminiLocalesNeeded = SetAdd(@, geminiLocale),
                !.localeMapping = MapSet(@, geminiLocale, pushed)]

RECURSIVE GroupLoop(_, _)
GroupLoop(acc, targetLocales) ==
  IF targetLocales = <<>> THEN acc
  ELSE GroupLoop(GroupStep(acc, Head(targetLocales)), Tail(targetLocales))

\* lines 162-168: all but the first member of every multi-member entry
GroupedOf(localeMapping) ==
  Flatten([i \in 1..Len(localeMapping) |->
             IF Len(localeMapping[i].locales) > 1
             THEN Tail(localeMapping[i].locales) ELSE <<>>])

prepareLocalesForTranslation(locales, primaryLocale) ==
  LET targetLocales == SelectSeq(locales, LAMBDA l : l # primaryLocale)
      acc == GroupLoop([localeMapping |-> <<>>, geminiLocalesNeeded |-> <<>>,
                        skippedLocales |-> <<>>], targetLocales)
  IN [translatableLocales |-> acc.geminiLocalesNeeded,
      localeMapping |-> acc.localeMapping,
      skippedLocales |-> acc.skippedLocales,
      groupedLocales |-> GroupedOf(acc.localeMapping)]

\* getTargetLocales (translate-screenshots.ts): requestedTargets = <<>>
\* stands for an absent or empty request.
LocalesToProcessOrAll(allLocales, primaryLocale, requestedTargets) ==
  LET validTargets == SelectSeq(requestedTargets, LAMBDA t : Includes(allLocales, t))
      chosen == IF Len(validTargets) > 0 THEN validTargets ELSE allLocales
  IN SelectSeq(chosen, LAMBDA l : l # primaryLocale)

LocalesToProcess(allLocales, primaryLocale, requestedTargets) ==
  LET validTargets == SelectSeq(requestedTargets, LAMBDA t : Includes(allLocales, t))
      chosen == IF Len(requestedTargets) > 0 THEN validTargets ELSE allLocales
  IN SelectSeq(chosen, LAMBDA l : l # primaryLocale)

InvalidTargets(allLocales, requestedTargets) ==
  SelectSeq(requestedTargets, LAMBDA t : ~Includes(allLocales, t))

getTargetLocales(allLocales, primaryLocale, requestedTargets) ==
  LET p == prepareLocalesForTranslation(
             LocalesToProcess(allLocales, primaryLocale, requestedTargets),
             primaryLocale)
  IN [targets |-> p.translatableLocales,
      skippedLocales |-> p.skippedLocales,
      groupedLocales |-> p.groupedLocales,
      localeMapping |-> p.localeMapping]

\* ------------------------------------------------------------------------
\* File names and paths (scan-screenshots.util.ts)
\* ------------------------------------------------------------------------
\* A file name is the list of its characters.
Digits == <<"0", "1", "2", "3", "4", "5", "6", "7", "8", "9">>

IsDigit(c) == \E d \in 1..10 : Digits[d] = c

DigitVal(c) == (CHOOSE d \in 1..10 : Digits[d] = c) - 1

\* /i of the extension test, for the letters the allow-list uses
Lower(c) ==
  CASE c = "P" -> "p" [] c = "N" -> "n" [] c = "G" -> "g" [] c = "J" -> "j"
    [] c = "E" -> "e" [] c = "W" -> "w" [] c = "B" -> "b" [] OTHER -> c

EndsWith(name, suffix) ==
  /\ Len(name) >= Len(suffix)
  /\ \A k \in 1..Len(suffix) :
       Lower(name[Len(name) - Len(suffix) + k]) = suffix[k]

\* /\.(png|jpg|jpeg|webp)$/i
HasImageExt(name) ==
  \/ EndsWith(name, <<".", "p", "n", "g">>)
  \/ EndsWith(name, <<".", "j", "p", "g">>)
  \/ EndsWith(name, <<".", "j", "p", "e", "g">>)
  \/ EndsWith(name, <<".", "w", "e", "b", "p">>)

RECURSIVE ParseDigits(_, _, _)
ParseDigits(name, i, acc) ==
  IF i <= Len(name) /\ IsDigit(name[i])
  THEN ParseDigits(name, i + 1, acc * 10 + DigitVal(name[i]))
  ELSE acc

\* a comparator that reads one digit only, /\d/ for /\d+/
FirstNumberOneDigit(name) ==
  LET at == {i \in 1..Len(name) : IsDigit(name[i])}
  IN IF at = {} THEN 0
     ELSE DigitVal(name[CHOOSE i \in at : \A j \in at : i <= j])

\* parseInt(name.match(/\d+/)?.[0] || "0"): the first run of digits
FirstNumber(name) ==
  LET at == {i \in 1..Len(name) : IsDigit(name[i])}
  IN IF at = {} THEN 0
     ELSE ParseDigits(name, CHOOSE i \in at : \A j \in at : i <= j, 0)

ShotName(n) == <<Digits[n + 1], ".", "p", "n", "g">>

DeviceTypes == <<"phone", "tablet">>

\* path.join(screenshotsDir, locale, type, filename)
SourcePath(locale, type, name) ==
  [locale |-> locale, type |-> type, raw |-> FALSE, name |-> name]

RawPathIgnoringType(locale, type, name) ==
  [locale |-> locale, type |-> "phone", raw |-> TRUE, name |-> name]

\* path.join(screenshotsDir, locale, type, "raw", filename)
RawPath(locale, type, name) ==
  [locale |-> locale, type |-> type, raw |-> TRUE, name |-> name]

\* path.dirname of a file path, as the list of its components
DirName(p) ==
  IF p.raw THEN <<p.locale, p.type, "raw">> ELSE <<p.locale, p.type>>

\* the directories mkdirSync(dir, {recursive: true}) leaves in place
WithParents(dir) == {SubSeq(dir, 1, k) : k \in 1..Len(dir)}

\* the names readdirSync(deviceDir) returns that pass the extension test
ImageNamesIn(fs, locale, type) ==
  {p.name : p \in {q \in DOMAIN fs :
                     q.locale = locale /\ q.type = type /\ ~q.raw
                     /\ HasImageExt(q.name)}}

\* the list of a set of names in ascending order of their first number
\* (names with equal numbers in the order of their lengths)
RECURSIVE SortByNumber(_)
SortByNumber(names) ==
  IF names = {} THEN <<>>
  ELSE LET least == CHOOSE n \in names :
                      \A m \in names :
                        \/ FirstNumber(n) < FirstNumber(m)
                        \/ FirstNumber(n) = FirstNumber(m) /\ Len(n) <= Len(m)
       IN <<least>> \o SortByNumber(names \ {least})

scanLocaleScreenshots(fs, ds, locale) ==
  IF <<locale>> \notin ds THEN <<>>
  ELSE Flatten([d \in 1..Len(DeviceTypes) |->
         IF <<locale, DeviceTypes[d]>> \notin ds THEN <<>>
         ELSE LET sorted == SortByNumber(ImageNamesIn(fs, locale, DeviceTypes[d]))
              IN [k \in 1..Len(sorted) |->
                    [type |-> DeviceTypes[d], filename |-> sorted[k],
                     fullPath |-> SourcePath(locale, DeviceTypes[d], sorted[k])]]])

\* ------------------------------------------------------------------------
\* Task construction (translate-screenshots.ts, buildTranslationTasks)
\* ------------------------------------------------------------------------
OutputPathsOfIgnoreSkip(fs, outputLocales, screenshot, skipExisting) ==
  [k \in 1..Len(outputLocales) |->
     RawPath(outputLocales[k], screenshot.type, screenshot.filename)]

OutputPathsOfSkipGroup(fs, outputLocales, screenshot, skipExisting) ==
  LET all == [k \in 1..Len(outputLocales) |->
                RawPath(outputLocales[k], screenshot.type, screenshot.filename)]
  IN IF skipExisting /\ \E k \in 1..Len(all) : all[k] \in DOMAIN fs THEN <<>> ELSE all

\* lines 242-257: one output path per member locale, those that already
\* exist left out under skipExisting
OutputPathsOf(fs, outputLocales, screenshot, skipExisting) ==
  SelectSeq([k \in 1..Len(outputLocales) |->
               RawPath(outputLocales[k], screenshot.type, screenshot.filename)],
            LAMBDA outputPath : ~skipExisting \/ outputPath \notin DOMAIN fs)

TaskOf(screenshot, primaryLocale, targetLocale, outputPaths) ==
  [sourcePath |-> screenshot.fullPath, sourceLocale |-> primaryLocale,
   targetLocale |-> targetLocale, outputPaths |-> outputPaths,
   deviceType |-> screenshot.type, filename |-> screenshot.filename]

buildTranslationTasksPerLocale(fs, screenshots, primaryLocale, targetLocales, localeMapping, skipExisting) ==
  Flatten([t \in 1..Len(targetLocales) |->
    Flatten([s \in 1..Len(screenshots) |->
      LET outputPaths == OutputPathsOf(fs, MapGet(localeMapping, targetLocales[t]),
                                       screenshots[s], skipExisting)
      IN [w \in 1..Len(outputPaths) |->
            TaskOf(screenshots[s], primaryLocale, targetLocales[t],
                   <<outputPaths[w]>>)]])])

buildTranslationTasksAllMembers(fs, screenshots, primaryLocale, targetLocales, localeMapping, skipExisting) ==
  Flatten([t \in 1..Len(targetLocales) |->
    Flatten([s \in 1..Len(screenshots) |->
      LET outputPaths == OutputPathsOf(fs, getOutputLocales(targetLocales[t]),
                                       screenshots[s], skipExisting)
      IN IF Len(outputPaths) = 0 THEN <<>>
         ELSE <<TaskOf(screenshots[s], primaryLocale, targetLocales[t], outputPaths)>>])])

\* lines 238-272: for every target group and every screenshot, a task unless
\* no output path is left
buildTranslationTasks(fs, screenshots, primaryLocale, targetLocales, localeMapping, skipExisting) ==
  Flatten([t \in 1..Len(targetLocales) |->
    Flatten([s \in 1..Len(screenshots) |->
      LET outputPaths == OutputPathsOf(fs, MapGet(localeMapping, targetLocales[t]),
                                       screenshots[s], skipExisting)
      IN IF Len(outputPaths) = 0 THEN <<>>
         ELSE <<TaskOf(screenshots[s], primaryLocale, targetLocales[t], outputPaths)>>])])

\* buildTranslationTasks of the single-stage localize tool (part_002, lines
\* 241-293): the same loops, the output path without the "raw" component
buildLocalizeTasks(fs, screenshots, primaryLocale, targetLocales, localeMapping, skipExisting) ==
  Flatten([t \in 1..Len(targetLocales) |->
    Flatten([s \in 1..Len(screenshots) |->
      LET outputLocales == MapGet(localeMapping, targetLocales[t])
          outputPaths ==
            SelectSeq([k \in 1..Len(outputLocales) |->
                         SourcePath(outputLocales[k], screenshots[s].type,
                                    screenshots[s].filename)],
                      LAMBDA outputPath : ~skipExisting \/ outputPath \notin DOMAIN fs)
      IN IF Len(outputPaths) = 0 THEN <<>>
         ELSE <<TaskOf(screenshots[s], primaryLocale, targetLocales[t], outputPaths)>>])])

\* lines 468-473: the target locales of a task list, each once, in the order
\* of first appearance
RECURSIVE TasksByLocaleKeys(_)
TasksByLocaleKeys(ts) ==
  IF ts = <<>> THEN <<>>
  ELSE LET before == TasksByLocaleKeys(SubSeq(ts, 1, Len(ts) - 1))
       IN SetAdd(before, ts[Len(ts)].targetLocale)

\* ------------------------------------------------------------------------
\* State
\* ------------------------------------------------------------------------
VARIABLES
  input,        \* the tool input and the product's locales, fixed over the runs
  run,          \* number of the current invocation of the handler
  pc,           \* position of the handler / the execution loop
  files,        \* the screenshots tree: file path -> content
  dirs,         \* the directories of the screenshots tree
  files0,       \* files when the current invocation began
  dirs0,        \* dirs when the current invocation began
  plan,         \* result of getTargetLocales in this invocation
  screenshots,  \* filteredScreenshots
  tasks,        \* result of buildTranslationTasks
  i,            \* current (1-based) of translateImagesWithProgress; 0 before the loop
  wi,           \* index of the output path translateImage writes next
  image,        \* id of the image the outstanding translateImage call received
  successful,   \* counters and error list of translateImagesWithProgress
  failed,
  errors,
  progressLog,  \* the TranslationProgress events handed to onProgress
  events,       \* backend calls, file writes and cooldowns of this invocation
  outstanding,  \* number of chat.sendMessage calls awaiting their response
  ncalls,       \* backend calls made so far, over all invocations
  faults,       \* failures injected so far
  result,       \* what the handler returned
  prev,         \* summary of the previous invocation
  planIn,       \* SpecPlan: the arguments of the planner
  planOut,      \* SpecPlan: getTargetLocales(planIn)
  prepOut,      \* SpecPlan: prepareLocalesForTranslation on the product locales
  planWarn,     \* SpecPlan: the locales named by the planner's console.warn
  planIn2,      \* SpecPlan: planIn with its locale list reordered
  planOut2,     \* SpecPlan: getTargetLocales(planIn2)
  planPc

planVars == <<planIn, planOut, prepOut, planWarn, planIn2, planOut2, planPc>>

runVars == <<input, run, pc, files, dirs, files0, dirs0, plan, screenshots, tasks,
             i, wi, image, successful, failed, errors, progressLog, events,
             outstanding, ncalls, faults, result, prev>>

\* the validate-and-resize stage of localize-screenshots and the resize-screenshots
\* tool (SpecResize)
VARIABLES
  mode,         \* which handler runs: "localize" or "resize"; "off" elsewhere
  imgs,         \* the screenshots tree with its images: file path -> image
  imgs0,        \* imgs when the handler began
  rtasks,       \* the handler's tasks
  resizePairs,  \* resizePairs of localize-screenshots
  rpc,          \* position of the handler
  ri,           \* index of the task or pair in work (1-based)
  rcur,         \* locals of the call in work: paths, dimensions, bgColor
  rres,         \* counters and error list of the batch, and the translation result
  rlog,         \* what each validateAndResizeImage / resizeImage call did
  colorIn,      \* SpecColor: the pixels handed to sampleEdgePixel / samplePixel
  colorOut,     \* SpecColor: the dominantColor returned
  colorPc,
  scanIn,       \* SpecScan: the tree, the readdirSync orders, screenshotNumbers
  scanOut,      \* SpecScan: the scanned list, the filtered list and the tasks
  scanPc,
  convIn,       \* SpecLocale: the store and the locale keys of the config data
  convOut,      \* SpecLocale: the store keys and the keys converted back
  convPc

resizeVars == <<mode, imgs, imgs0, rtasks, resizePairs, rpc, ri, rcur, rres, rlog>>

colorVars == <<colorIn, colorOut, colorPc>>

scanVars == <<scanIn, scanOut, scanPc>>

convVars == <<convIn, convOut, convPc>>

stageVars == <<resizeVars, colorVars, scanVars, convVars>>

vars == <<input, run, pc, files, dirs, files0, dirs0, plan, screenshots, tasks,
          i, wi, image, successful, failed, errors, progressLog, events,
          outstanding, ncalls, faults, result, prev,
          planIn, planOut, prepOut, planWarn, planIn2, planOut2, planPc,
          mode, imgs, imgs0, rtasks, resizePairs, rpc, ri, rcur, rres, rlog,
          colorIn, colorOut, colorPc,
          scanIn, scanOut, scanPc, convIn, convOut, convPc>>

NoCall == [op |-> "none"]

NoBatch == [successful |-> 0, failed |-> 0, resized |-> 0, skipped |-> 0, errors |-> <<>>]

White == [r |-> 255, g |-> 255, b |-> 255]

ResizeIdle ==
  /\ mode = "off" /\ imgs = << >> /\ imgs0 = << >>
  /\ rtasks = <<>> /\ resizePairs = <<>> /\ rpc = "off" /\ ri = 0
  /\ rcur = NoCall /\ rres = NoBatch /\ rlog = <<>>

ColorIdle == colorIn = <<>> /\ colorOut = White /\ colorPc = "off"

NoScan == [screenshots |-> <<>>, filtered |-> <<>>, tasks |-> <<>>]

ScanIdle == scanIn = <<>> /\ scanOut = NoScan /\ scanPc = "off"

ConvIdle == convIn = <<>> /\ convOut = <<>> /\ convPc = "off"

StageIdle == ResizeIdle /\ ColorIdle /\ ScanIdle /\ ConvIdle

EmptyPlan ==
  [targets |-> <<>>, skippedLocales |-> <<>>, groupedLocales |-> <<>>,
   localeMapping |-> <<>>]

NoResult ==
  [kind |-> "none", successful |-> 0, failed |-> 0, shown |-> <<>>, more |-> 0,
   preview |-> <<>>]

NoPrev == [kind |-> "none", dryRun |-> FALSE, ntasks |-> 0, successful |-> 0, failed |-> 0]

NoPlanIn == [allLocales |-> <<>>, primaryLocale |-> Null, requestedTargets |-> <<>>]

\* ------------------------------------------------------------------------
\* The planner on bounded inputs (SpecPlan)
\* ------------------------------------------------------------------------
PlanLocales == {"en-US", "en-GB", "es-ES", "es-419", "ko-KR", "th-TH"}

\* the targetLocales a caller passes: none, or names of which some are not
\* locales of the product
PlanRequests ==
  { <<>>, <<"es-ES">>, <<"es-419", "es-ES">>, <<"xx-YY">>,
    <<"es-ES", "xx-YY", "es-419">> }

\* the exchange of positions a and b of a list of length n
Swap(n, a, b) ==
  [k \in 1..n |-> IF k = a THEN b ELSE IF k = b THEN a ELSE k]

\* the list the planner walks: requestedTargets when given, else allLocales
PlannedList(in) ==
  IF Len(in.requestedTargets) > 0 THEN in.requestedTargets ELSE in.allLocales

ReorderedInput(in, p) ==
  IF Len(in.requestedTargets) > 0
  THEN [in EXCEPT !.requestedTargets = Reorder(in.requestedTargets, p)]
  ELSE [in EXCEPT !.allLocales = Reorder(in.allLocales, p)]

PipelineIdle ==
  /\ input = [allLocales |-> <<>>, primaryLocale |-> Null, requestedTargets |-> <<>>,
              deviceTypes |-> <<>>,
              dryRun |-> FALSE, skipExisting |-> FALSE]
  /\ run = 0 /\ pc = "off"
  /\ files = << >> /\ dirs = {} /\ files0 = << >> /\ dirs0 = {}
  /\ plan = EmptyPlan /\ screenshots = <<>> /\ tasks = <<>>
  /\ i = 0 /\ wi = 0 /\ image = 0
  /\ successful = 0 /\ failed = 0 /\ errors = <<>>
  /\ progressLog = <<>> /\ events = <<>>
  /\ outstanding = 0 /\ ncalls = 0 /\ faults = 0
  /\ result = NoResult /\ prev = NoPrev

InitPlan ==
  /\ PipelineIdle
  /\ StageIdle
  /\ planIn \in {in \in [allLocales : {s \in SeqsUpTo(PlanLocales, MaxPlanLen) :
                                           Len(s) >= 1 /\ NoDup(s)},
                         primaryLocale : PlanLocales,
                         requestedTargets : PlanRequests] :
                   Includes(in.allLocales, in.primaryLocale)}
  /\ planOut = EmptyPlan /\ prepOut = EmptyPlan /\ planWarn = <<>>
  /\ planIn2 = NoPlanIn /\ planOut2 = EmptyPlan
  /\ planPc = "input"

\* getTargetLocales(allLocales, primaryLocale, requestedTargets)
PlanCall ==
  /\ planPc = "input"
  /\ planOut' = getTargetLocales(planIn.allLocales, planIn.primaryLocale,
                                 planIn.requestedTargets)
  /\ planWarn' = InvalidTargets(planIn.allLocales, planIn.requestedTargets)
  /\ planPc' = "planned"
  /\ UNCHANGED <<planIn, prepOut, planIn2, planOut2>>
  /\ UNCHANGED <<runVars, stageVars>>

\* prepareLocalesForTranslation(allLocales, primaryLocale), called directly
PrepareCall ==
  /\ planPc = "planned"
  /\ LET p == prepareLocalesForTranslation(planIn.allLocales, planIn.primaryLocale)
     IN prepOut' = [targets |-> p.translatableLocales,
                    skippedLocales |-> p.skippedLocales,
                    groupedLocales |-> p.groupedLocales,
                    localeMapping |-> p.localeMapping]
  /\ planPc' = "prepared"
  /\ UNCHANGED <<planIn, planOut, planWarn, planIn2, planOut2>>
  /\ UNCHANGED <<runVars, stageVars>>

\* getTargetLocales again, on the same locales in another order
PlanReordered ==
  /\ planPc = "prepared"
  /\ \E a, b \in 1..Len(PlannedList(planIn)) :
       /\ a < b
       /\ planIn2' = ReorderedInput(planIn, Swap(Len(PlannedList(planIn)), a, b))
       /\ planOut2' = getTargetLocales(planIn2'.allLocales, planIn2'.primaryLocale,
                                       planIn2'.requestedTargets)
  /\ planPc' = "reordered"
  /\ UNCHANGED <<planIn, planOut, prepOut, planWarn>>
  /\ UNCHANGED <<runVars, stageVars>>

NextPlan == PlanCall \/ PrepareCall \/ PlanReordered

SpecPlan == InitPlan /\ [][NextPlan]_vars

\* ------------------------------------------------------------------------
\* The handler (translate-screenshots.ts, handleTranslateScreenshots)
\* ------------------------------------------------------------------------
\* products explored: locale lists as Object.keys(locales) returns them
ProductLocaleLists ==
  { <<"en-US", "es-ES", "es-419", "ko-KR">>,
    <<"en-US", "en-GB", "th-TH">>,
    <<"ko-KR", "th-TH">>,
    <<"en-US", "es-ES", "es-MX", "fr-FR">> }

RequestChoices == { <<>>, <<"en-US", "ko-KR", "xx-YY">> }

SourceContent == [kind |-> "source", call |-> 0]

Translated(id) == [kind |-> "translated", call |-> id]

Partial(id) == [kind |-> "partial", call |-> id]

\* the primary locale's screenshot tree with n phone screenshots and t tablet ones
SourceFiles(primaryLocale, n, t) ==
  [p \in {SourcePath(primaryLocale, "phone", ShotName(k)) : k \in 1..n}
         \cup {SourcePath(primaryLocale, "tablet", ShotName(k)) : k \in 1..t}
     |-> SourceContent]

SourceDirs(primaryLocale, n, t) ==
  {<<primaryLocale>>}
    \cup (IF n > 0 THEN {<<primaryLocale, "phone">>} ELSE {})
    \cup (IF t > 0 THEN {<<primaryLocale, "tablet">>} ELSE {})

PlanIdle ==
  /\ planIn = NoPlanIn /\ planOut = EmptyPlan /\ prepOut = EmptyPlan
  /\ planWarn = <<>>
  /\ planIn2 = NoPlanIn /\ planOut2 = EmptyPlan /\ planPc = "off"

Init ==
  /\ PlanIdle
  /\ StageIdle
  /\ \E a \in ProductLocaleLists, r \in RequestChoices, d \in BOOLEAN, k \in BOOLEAN,
        n \in 0..MaxShots, t \in 0..MaxShots :
       /\ n + t <= MaxShots
       /\ input = [allLocales |-> a, primaryLocale |-> a[1], requestedTargets |-> r,
                   deviceTypes |-> DeviceTypes,
                   dryRun |-> d, skipExisting |-> k]
       /\ files = SourceFiles(a[1], n, t)
       /\ dirs = SourceDirs(a[1], n, t)
  /\ files0 = files /\ dirs0 = dirs
  /\ run = 1 /\ pc = "idle"
  /\ plan = EmptyPlan /\ screenshots = <<>> /\ tasks = <<>>
  /\ i = 0 /\ wi = 0 /\ image = 0
  /\ successful = 0 /\ failed = 0 /\ errors = <<>>
  /\ progressLog = <<>> /\ events = <<>>
  /\ outstanding = 0 /\ ncalls = 0 /\ faults = 0
  /\ result = NoResult /\ prev = NoPrev

\* Steps 3 to 5 (lines 328-444): plan the locales, scan and filter the primary
\* locale's screenshots, build the tasks. A step the handler returns before
\* leaves its list empty.
PlanScanBuild ==
  /\ pc = "idle"
  /\ plan' = getTargetLocales(input.allLocales, input.primaryLocale,
                              input.requestedTargets)
  /\ screenshots' =
       IF Len(plan'.targets) = 0 THEN <<>>
       ELSE SelectSeq(scanLocaleScreenshots(files, dirs, input.primaryLocale),
                      LAMBDA sh : Includes(input.deviceTypes, sh.type))
  /\ tasks' =
       IF Len(screenshots') = 0 THEN <<>>
       ELSE buildTranslationTasks(files, screenshots', input.primaryLocale,
                                  plan'.targets, plan'.localeMapping,
                                  input.skipExisting)
  /\ pc' = "built"
  /\ UNCHANGED <<input, run, files, dirs, files0, dirs0, i, wi, image, successful,
                 failed, errors, progressLog, events, outstanding, ncalls, faults,
                 result, prev>>
  /\ UNCHANGED <<planVars, stageVars>>

AllOutputPaths(ts) == Flatten([k \in 1..Len(ts) |-> ts[k].outputPaths])

\* the directories in place once the mkdir loop has handled paths 1..k
DirsAfter(ds, paths, k) ==
  ds \cup UNION {WithParents(DirName(paths[j])) : j \in 1..k}

Returned(kind) ==
  [kind |-> kind, successful |-> 0, failed |-> 0, shown |-> <<>>, more |-> 0,
   preview |-> <<>>]

PreviewPerOutputPath(ts, localeMapping) ==
  LET keys == TasksByLocaleKeys(ts)
  IN [h \in 1..Len(keys) |->
        [locale |-> keys[h],
         also |-> SelectSeq(MapGet(localeMapping, keys[h]), LAMBDA l : l # keys[h]),
         entries |-> LET mine == SelectSeq(ts, LAMBDA t : t.targetLocale = keys[h])
                     IN Flatten([e \in 1..Len(mine) |->
                           [w \in 1..Len(mine[e].outputPaths) |->
                              [deviceType |-> mine[e].deviceType,
                               filename |-> mine[e].filename]]])]]

\* lines 464-485: the tasks under the heading of their target locale, in
\* the order of Object.entries(tasksByLocale) (first appearance in the task
\* list); "also" names the members of the group other than the key itself
Preview(ts, localeMapping) ==
  LET keys == TasksByLocaleKeys(ts)
  IN [h \in 1..Len(keys) |->
        [locale |-> keys[h],
         also |-> SelectSeq(MapGet(localeMapping, keys[h]), LAMBDA l : l # keys[h]),
         entries |-> LET mine == SelectSeq(ts, LAMBDA t : t.targetLocale = keys[h])
                     IN [e \in 1..Len(mine) |->
                           [deviceType |-> mine[e].deviceType,
                            filename |-> mine[e].filename]]]]

LoopIdle ==
  UNCHANGED <<plan, screenshots, tasks, i, wi, image, successful, failed, errors,
              progressLog, events, outstanding, ncalls>>

\* lines 336-349: no target locale is left
ReturnNoTargets ==
  /\ pc = "built"
  /\ Len(plan.targets) = 0
  /\ result' = Returned("no-targets")
  /\ pc' = "done"
  /\ LoopIdle
  /\ UNCHANGED <<input, run, files, dirs, files0, dirs0, faults, prev>>
  /\ UNCHANGED <<planVars, stageVars>>

\* lines 410-424: the primary locale has no screenshot to translate
ReturnNoScreenshots ==
  /\ pc = "built"
  /\ Len(plan.targets) > 0
  /\ Len(screenshots) = 0
  /\ result' = Returned("no-screenshots")
  /\ pc' = "done"
  /\ LoopIdle
  /\ UNCHANGED <<input, run, files, dirs, files0, dirs0, faults, prev>>
  /\ UNCHANGED <<planVars, stageVars>>

\* lines 446-456: every output already exists
ReturnAllTranslated ==
  /\ pc = "built"
  /\ Len(plan.targets) > 0
  /\ Len(screenshots) > 0
  /\ Len(tasks) = 0
  /\ result' = Returned("all-translated")
  /\ pc' = "done"
  /\ LoopIdle
  /\ UNCHANGED <<input, run, files, dirs, files0, dirs0, faults, prev>>
  /\ UNCHANGED <<planVars, stageVars>>

ReturnDryRunAfterMkdir ==
  /\ pc = "built"
  /\ Len(plan.targets) > 0
  /\ Len(screenshots) > 0
  /\ Len(tasks) > 0
  /\ input.dryRun
  /\ dirs' = DirsAfter(dirs, AllOutputPaths(tasks), Len(AllOutputPaths(tasks)))
  /\ result' = Returned("dry-run")
  /\ pc' = "done"
  /\ LoopIdle
  /\ UNCHANGED <<input, run, files, files0, dirs0, faults, prev>>
  /\ UNCHANGED <<planVars, stageVars>>

\* lines 460-495: the preview of a dry run
ReturnDryRun ==
  /\ pc = "built"
  /\ Len(plan.targets) > 0
  /\ Len(screenshots) > 0
  /\ Len(tasks) > 0
  /\ input.dryRun
  /\ result' = [Returned("dry-run") EXCEPT
                  !.preview = Preview(tasks, plan.localeMapping)]
  /\ pc' = "done"
  /\ LoopIdle
  /\ UNCHANGED <<input, run, files, dirs, files0, dirs0, faults, prev>>
  /\ UNCHANGED <<planVars, stageVars>>

\* lines 505-513: mkdirSync throws at the k-th output path; the exception
\* leaves the handler
EnsureDirsThrows ==
  /\ pc = "built"
  /\ Len(plan.targets) > 0
  /\ Len(screenshots) > 0
  /\ Len(tasks) > 0
  /\ ~input.dryRun
  /\ faults < MaxFaults
  /\ \E k \in 1..Len(AllOutputPaths(tasks)) :
       /\ DirName(AllOutputPaths(tasks)[k])
            \notin DirsAfter(dirs, AllOutputPaths(tasks), k - 1)
       /\ dirs' = DirsAfter(dirs, AllOutputPaths(tasks), k - 1)
  /\ faults' = faults + 1
  /\ result' = Returned("threw")
  /\ pc' = "aborted"
  /\ LoopIdle
  /\ UNCHANGED <<input, run, files, files0, dirs0, prev>>
  /\ UNCHANGED <<planVars, stageVars>>

\* lines 497-515: the output directories are made and the loop of
\* translateImagesWithProgress is entered
StartTranslations ==
  /\ pc = "built"
  /\ Len(plan.targets) > 0
  /\ Len(screenshots) > 0
  /\ Len(tasks) > 0
  /\ ~input.dryRun
  /\ dirs' = DirsAfter(dirs, AllOutputPaths(tasks), Len(AllOutputPaths(tasks)))
  /\ pc' = "loop"
  /\ LoopIdle
  /\ UNCHANGED <<input, run, files, files0, dirs0, faults, result, prev>>
  /\ UNCHANGED <<planVars, stageVars>>

\* ------------------------------------------------------------------------
\* translateImagesWithProgress / translateImage (gemini-image-translator)
\* ------------------------------------------------------------------------
ProgressEventZeroBased(cur, status) ==
  [current |-> cur - 1, total |-> Len(tasks), status |-> status,
   targetLocale |-> tasks[cur].targetLocale, deviceType |-> tasks[cur].deviceType,
   filename |-> tasks[cur].filename]

\* lines 283-295: current is the 1-based position of the task
ProgressEvent(cur, status) ==
  [current |-> cur, total |-> Len(tasks), status |-> status,
   targetLocale |-> tasks[cur].targetLocale, deviceType |-> tasks[cur].deviceType,
   filename |-> tasks[cur].filename]

Event(kind, task, id, slot) == [kind |-> kind, task |-> task, id |-> id, slot |-> slot]

\* result.error || "Unknown error"
ErrorOrUnknown(e) == IF e = "" THEN "Unknown error" ELSE e

ThrownMessages == {"fetch failed"}

\* error.message of a mkdirSync or toFile that failed
WriteErrorMessages == {"ENOSPC: no space left on device"}

NoImageMessages ==
  {"No response from Gemini API", "No content parts in response",
   "No image data in Gemini response"}

\* lines 309-319: the else branch and the second onProgress
CountFailed(cur, message) ==
  /\ failed' = failed + 1
  /\ errors' = Append(errors, [path |-> tasks[cur].sourcePath,
                               error |-> ErrorOrUnknown(message)])
  /\ UNCHANGED successful

\* lines 306-308
CountSuccessful ==
  /\ successful' = successful + 1
  /\ UNCHANGED <<failed, errors>>

\* lines 281-297 and 147-156: the next task is taken, "translating" is
\* reported, and translateImage throws before it reaches the backend
\* (no API key, unreadable source file)
BeginTaskThrows ==
  /\ pc = "loop"
  /\ i < Len(tasks)
  /\ faults < MaxFaults
  /\ i' = i + 1
  /\ \E m \in ThrownMessages : CountFailed(i + 1, m)
  /\ progressLog' = progressLog \o <<ProgressEvent(i + 1, "translating"),
                                     ProgressEvent(i + 1, "failed")>>
  /\ faults' = faults + 1
  /\ pc' = "cooldown"
  /\ UNCHANGED <<input, run, files, dirs, files0, dirs0, plan, screenshots, tasks,
                 wi, image, events, outstanding, ncalls, result, prev>>
  /\ UNCHANGED <<planVars, stageVars>>

\* lines 281-297 and 147-201: the next task is taken, "translating" is
\* reported, and chat.sendMessage is awaited
BeginTaskCalls ==
  /\ pc = "loop"
  /\ i < Len(tasks)
  /\ i' = i + 1
  /\ progressLog' = Append(progressLog, ProgressEvent(i + 1, "translating"))
  /\ ncalls' = ncalls + 1
  /\ outstanding' = outstanding + 1
  /\ events' = Append(events, Event("call", i + 1, ncalls + 1, 0))
  /\ pc' = "awaiting"
  /\ UNCHANGED <<input, run, files, dirs, files0, dirs0, plan, screenshots, tasks,
                 wi, image, successful, failed, errors, faults, result, prev>>
  /\ UNCHANGED <<planVars, stageVars>>

RespondWithoutImageReturns ==
  /\ pc = "awaiting"
  /\ faults < MaxFaults
  /\ outstanding' = outstanding - 1
  /\ \E m \in ThrownMessages \cup NoImageMessages : CountFailed(i, m)
  /\ progressLog' = Append(progressLog, ProgressEvent(i, "failed"))
  /\ faults' = faults + 1
  /\ result' = [kind |-> "summary", successful |-> successful, failed |-> failed + 1,
                shown |-> <<>>, more |-> 0, preview |-> <<>>]
  /\ pc' = "done"
  /\ UNCHANGED <<input, run, files, dirs, files0, dirs0, plan, screenshots, tasks,
                 i, wi, image, events, ncalls, prev>>
  /\ UNCHANGED <<planVars, stageVars>>

RespondWithoutImageNoDelay ==
  /\ pc = "awaiting"
  /\ faults < MaxFaults
  /\ outstanding' = outstanding - 1
  /\ \E m \in ThrownMessages \cup NoImageMessages : CountFailed(i, m)
  /\ progressLog' = Append(progressLog, ProgressEvent(i, "failed"))
  /\ faults' = faults + 1
  /\ pc' = "loop"
  /\ UNCHANGED <<input, run, files, dirs, files0, dirs0, plan, screenshots, tasks,
                 i, wi, image, events, ncalls, result, prev>>
  /\ UNCHANGED <<planVars, stageVars>>

\* lines 203-218, 243-253: the call throws or answers without an image
RespondWithoutImage ==
  /\ pc = "awaiting"
  /\ faults < MaxFaults
  /\ outstanding' = outstanding - 1
  /\ \E m \in ThrownMessages \cup NoImageMessages : CountFailed(i, m)
  /\ progressLog' = Append(progressLog, ProgressEvent(i, "failed"))
  /\ faults' = faults + 1
  /\ pc' = "cooldown"
  /\ UNCHANGED <<input, run, files, dirs, files0, dirs0, plan, screenshots, tasks,
                 i, wi, image, events, ncalls, result, prev>>
  /\ UNCHANGED <<planVars, stageVars>>

\* lines 220-223: the response carries an image
RespondWithImage ==
  /\ pc = "awaiting"
  /\ outstanding' = outstanding - 1
  /\ image' = ncalls
  /\ wi' = 1
  /\ pc' = "writing"
  /\ UNCHANGED <<input, run, files, dirs, files0, dirs0, plan, screenshots, tasks,
                 i, successful, failed, errors, progressLog, events, ncalls,
                 faults, result, prev>>
  /\ UNCHANGED <<planVars, stageVars>>

WriteFile(fs, path, content) ==
  [q \in DOMAIN fs \cup {path} |-> IF q = path THEN content ELSE fs[q]]

WriteOutputFirstOnly ==
  /\ pc = "writing"
  /\ LET outputPath == tasks[i].outputPaths[wi]
     IN /\ dirs' = dirs \cup WithParents(DirName(outputPath))
        /\ files' = WriteFile(files, outputPath, Translated(image))
        /\ events' = Append(events, Event("write", i, image, wi))
  /\ CountSuccessful
  /\ progressLog' = Append(progressLog, ProgressEvent(i, "completed"))
  /\ wi' = 0
  /\ pc' = "cooldown"
  /\ UNCHANGED <<input, run, files0, dirs0, plan, screenshots, tasks, i, image,
                 outstanding, ncalls, faults, result, prev>>
  /\ UNCHANGED <<planVars, stageVars>>

\* lines 226-240: the image is saved to the next output path; after the last
\* one translateImage returns success
WriteOutput ==
  /\ pc = "writing"
  /\ LET outputPath == tasks[i].outputPaths[wi]
     IN /\ dirs' = dirs \cup WithParents(DirName(outputPath))
        /\ files' = WriteFile(files, outputPath, Translated(image))
        /\ events' = Append(events, Event("write", i, image, wi))
  /\ IF wi = Len(tasks[i].outputPaths)
     THEN /\ CountSuccessful
          /\ progressLog' = Append(progressLog, ProgressEvent(i, "completed"))
          /\ wi' = 0
          /\ pc' = "cooldown"
     ELSE /\ wi' = wi + 1
          /\ pc' = "writing"
          /\ UNCHANGED <<successful, failed, errors, progressLog>>
  /\ UNCHANGED <<input, run, files0, dirs0, plan, screenshots, tasks, i, image,
                 outstanding, ncalls, faults, result, prev>>
  /\ UNCHANGED <<planVars, stageVars>>

WriteOutputThrowsCleansUp ==
  /\ pc = "writing"
  /\ faults < MaxFaults
  /\ LET written == {tasks[i].outputPaths[w] : w \in 1..(wi - 1)}
     IN files' = [p \in DOMAIN files \ written |-> files[p]]
  /\ \E m \in WriteErrorMessages : CountFailed(i, m)
  /\ progressLog' = Append(progressLog, ProgressEvent(i, "failed"))
  /\ faults' = faults + 1
  /\ wi' = 0
  /\ pc' = "cooldown"
  /\ UNCHANGED <<input, run, dirs, files0, dirs0, plan, screenshots, tasks, i, image,
                 events, outstanding, ncalls, result, prev>>
  /\ UNCHANGED <<planVars, stageVars>>

\* lines 233, 247-253: toFile throws (disk full, permission); the file is
\* left as it was or holds an incomplete image; the catch turns the throw
\* into a failed result
WriteOutputThrows ==
  /\ pc = "writing"
  /\ faults < MaxFaults
  /\ LET outputPath == tasks[i].outputPaths[wi]
     IN \/ UNCHANGED files
        \/ files' = WriteFile(files, outputPath, Partial(image))
  /\ \E m \in WriteErrorMessages : CountFailed(i, m)
  /\ progressLog' = Append(progressLog, ProgressEvent(i, "failed"))
  /\ faults' = faults + 1
  /\ wi' = 0
  /\ pc' = "cooldown"
  /\ UNCHANGED <<input, run, dirs, files0, dirs0, plan, screenshots, tasks, i, image,
                 events, outstanding, ncalls, result, prev>>
  /\ UNCHANGED <<planVars, stageVars>>

\* line 322: the delay after every task
Cooldown ==
  /\ pc = "cooldown"
  /\ events' = Append(events, Event("cooldown", i, 0, 0))
  /\ pc' = "loop"
  /\ UNCHANGED <<input, run, files, dirs, files0, dirs0, plan, screenshots, tasks,
                 i, wi, image, successful, failed, errors, progressLog,
                 outstanding, ncalls, faults, result, prev>>
  /\ UNCHANGED <<planVars, stageVars>>

Min(a, b) == IF a <= b THEN a ELSE b

MaxErrorsShown == 5

\* a handler that lists every error instead of the first five
ReturnSummaryAllErrors ==
  /\ pc = "loop"
  /\ i = Len(tasks)
  /\ result' = [kind |-> "summary", successful |-> successful, failed |-> failed,
                shown |-> errors, more |-> 0, preview |-> <<>>]
  /\ pc' = "done"
  /\ UNCHANGED <<input, run, files, dirs, files0, dirs0, plan, screenshots, tasks,
                 i, wi, image, successful, failed, errors, progressLog, events,
                 outstanding, ncalls, faults, prev>>
  /\ UNCHANGED <<planVars, stageVars>>

\* line 325 and lines 536-566 of the handler: the tally is returned
ReturnSummary ==
  /\ pc = "loop"
  /\ i = Len(tasks)
  /\ result' = [kind |-> "summary", successful |-> successful, failed |-> failed,
                shown |-> SubSeq(errors, 1, Min(MaxErrorsShown, Len(errors))),
                more |-> Len(errors) - Min(MaxErrorsShown, Len(errors)),
                preview |-> <<>>]
  /\ pc' = "done"
  /\ UNCHANGED <<input, run, files, dirs, files0, dirs0, plan, screenshots, tasks,
                 i, wi, image, successful, failed, errors, progressLog, events,
                 outstanding, ncalls, faults, prev>>
  /\ UNCHANGED <<planVars, stageVars>>

\* the process dies while the loop runs: nothing more of this invocation
\* happens. sharp's toFile writes the output file in place, so a process
\* that dies during a write leaves the file absent, incomplete or complete.
Crash ==
  /\ pc \in {"loop", "awaiting", "writing", "cooldown"}
  /\ faults < MaxFaults
  /\ IF pc = "writing"
     THEN \/ UNCHANGED files
          \/ files' = WriteFile(files, tasks[i].outputPaths[wi], Partial(image))
     ELSE UNCHANGED files
  /\ outstanding' = 0
  /\ faults' = faults + 1
  /\ result' = Returned("crashed")
  /\ pc' = "crashed"
  /\ UNCHANGED <<input, run, dirs, files0, dirs0, plan, screenshots, tasks, i, wi,
                 image, successful, failed, errors, progressLog, events, ncalls,
                 prev>>
  /\ UNCHANGED <<planVars, stageVars>>

\* the tool is invoked again with the same input, to pick up what the run
\* before left undone (skipExisting = true)
InvokeAgain ==
  /\ pc \in {"done", "aborted", "crashed"}
  /\ run < MaxRuns
  /\ input.skipExisting
  /\ run' = run + 1
  /\ prev' = [kind |-> result.kind, dryRun |-> input.dryRun, ntasks |-> Len(tasks),
              successful |-> successful, failed |-> failed]
  /\ files0' = files /\ dirs0' = dirs
  /\ plan' = EmptyPlan /\ screenshots' = <<>> /\ tasks' = <<>>
  /\ i' = 0 /\ wi' = 0 /\ image' = 0
  /\ successful' = 0 /\ failed' = 0 /\ errors' = <<>>
  /\ progressLog' = <<>> /\ events' = <<>>
  /\ result' = NoResult
  /\ pc' = "idle"
  /\ UNCHANGED <<input, files, dirs, outstanding, ncalls, faults>>
  /\ UNCHANGED <<planVars, stageVars>>

Next ==
  \/ PlanScanBuild
  \/ ReturnNoTargets
  \/ ReturnNoScreenshots
  \/ ReturnAllTranslated
  \/ ReturnDryRun
  \/ EnsureDirsThrows
  \/ StartTranslations
  \/ BeginTaskThrows
  \/ BeginTaskCalls
  \/ RespondWithoutImage
  \/ RespondWithImage
  \/ WriteOutput
  \/ WriteOutputThrows
  \/ Cooldown
  \/ ReturnSummary
  \/ Crash
  \/ InvokeAgain

Spec == Init /\ [][Next]_vars

\* ------------------------------------------------------------------------
\* The handler called with dryRun = true on a tree that may already hold
\* output files (SpecDryRun)
\* ------------------------------------------------------------------------
DryRunLocaleLists ==
  ProductLocaleLists \cup { <<"en-US", "ko-KR", "fr-FR">>, <<"en-US", "es-419", "es-ES">> }

DryRunRequests == RequestChoices \cup { <<"es-ES", "ko-KR">> }

\* an image a translation or resize of an earlier session left in the tree
Leftover == Translated(0)

\* the places of a target locale's raw and final screenshots
OutputPlaces(a, n, t) ==
  {RawPath(l, "phone", ShotName(k)) : l \in Range(a) \ {a[1]}, k \in 1..n}
    \cup {SourcePath(l, "phone", ShotName(k)) : l \in Range(a) \ {a[1]}, k \in 1..n}
    \cup {RawPath(l, "tablet", ShotName(k)) : l \in Range(a) \ {a[1]}, k \in 1..t}
    \cup {SourcePath(l, "tablet", ShotName(k)) : l \in Range(a) \ {a[1]}, k \in 1..t}

InitDryRun ==
  /\ PlanIdle
  /\ StageIdle
  /\ \E a \in DryRunLocaleLists, r \in DryRunRequests, k \in BOOLEAN,
        n \in 0..MaxShots, t \in 0..MaxShots :
       /\ n + t <= MaxShots
       /\ input = [allLocales |-> a, primaryLocale |-> a[1], requestedTargets |-> r,
                   deviceTypes |-> DeviceTypes,
                   dryRun |-> TRUE, skipExisting |-> k]
       /\ \E existing \in SUBSET OutputPlaces(a, n, t) :
            /\ Cardinality(existing) <= MaxExisting
            /\ files = [p \in DOMAIN SourceFiles(a[1], n, t) \cup existing |->
                          IF p \in existing THEN Leftover ELSE SourceContent]
            /\ dirs = SourceDirs(a[1], n, t)
                        \cup UNION {WithParents(DirName(p)) : p \in existing}
  /\ files0 = files /\ dirs0 = dirs
  /\ run = 1 /\ pc = "idle"
  /\ plan = EmptyPlan /\ screenshots = <<>> /\ tasks = <<>>
  /\ i = 0 /\ wi = 0 /\ image = 0
  /\ successful = 0 /\ failed = 0 /\ errors = <<>>
  /\ progressLog = <<>> /\ events = <<>>
  /\ outstanding = 0 /\ ncalls = 0 /\ faults = 0
  /\ result = NoResult /\ prev = NoPrev

NextDryRun ==
  \/ PlanScanBuild
  \/ ReturnNoTargets
  \/ ReturnNoScreenshots
  \/ ReturnAllTranslated
  \/ ReturnDryRun

SpecDryRun == InitDryRun /\ [][NextDryRun]_vars

\* ========================================================================
\* Properties of the locale registry and the planner (SpecPlan)
\* ========================================================================
GroupsHolding(L) ==
  {g \in 1..Len(GEMINI_LOCALE_GROUPS) : Includes(GEMINI_LOCALE_GROUPS[g].locales, L)}

\* C1: every unified locale is a member of at most one translation group,
\* and when the group lookup for L succeeds, L is in the member list of the
\* group key the lookup returns.
C1_OneGroupPerLocale ==
  \A L \in RegistryLocales \cup PlanLocales \cup {"xx-YY", "es-MX"} :
    /\ Cardinality(GroupsHolding(L)) <= 1
    /\ getGeminiLocale(L) # Null
         => Includes(getOutputLocales(getGeminiLocale(L)), L)

\* two locales of the product were looked up and fell into one group
C1_Witness ==
  /\ planPc = "planned"
  /\ \E e \in Range(planOut.localeMapping) :
       e.key = "es-MX" /\ Range(e.locales) = {"es-ES", "es-419"}

\* the locales the planner is asked to place
Candidates(locales, primaryLocale) == {l \in Range(locales) : l # primaryLocale}

PlacedOnce(out, candidates) ==
  \A l \in candidates :
    /\ Includes(out.skippedLocales, l) <=> getGeminiLocale(l) = Null
    /\ \A e \in Range(out.localeMapping) :
         Includes(e.locales, l) <=> e.key = getGeminiLocale(l)
    /\ getGeminiLocale(l) # Null => MapHas(out.localeMapping, getGeminiLocale(l))

\* C8: the planner puts every non-primary candidate locale in exactly one
\* place: in skipped iff its group lookup fails, otherwise in the member list
\* of its own group key and of no other key; unsupported locales do not stop
\* the supported ones from being planned.
C8_EveryCandidatePlacedOnce ==
  /\ planPc \in {"prepared", "reordered"}
       => PlacedOnce(prepOut, Candidates(planIn.allLocales, planIn.primaryLocale))
  /\ planPc \in {"planned", "prepared", "reordered"}
       => PlacedOnce(planOut,
                     {l \in Candidates(PlannedList(planIn), planIn.primaryLocale) :
                        Includes(planIn.allLocales, l)})

\* a product with an unsupported locale next to a supported one, and a
\* request that names two locales of one group
C8_Witness ==
  /\ planPc = "prepared"
  /\ Includes(prepOut.skippedLocales, "th-TH")
  /\ Len(prepOut.localeMapping) = 1
  /\ \E e \in Range(planOut.localeMapping) : Len(e.locales) = 2

RegistryPos(l) ==
  LET g == CHOOSE h \in GroupsHolding(l) : TRUE
  IN CHOOSE k \in 1..Len(GEMINI_LOCALE_GROUPS[g].locales) :
       GEMINI_LOCALE_GROUPS[g].locales[k] = l

InputPos(list, l) ==
  CHOOSE k \in 1..Len(list) : list[k] = l /\ \A j \in 1..(k - 1) : list[j] # l

FirstIsRegistryEarliest(out) ==
  \A e \in Range(out.localeMapping) :
    \A m \in Range(e.locales) : RegistryPos(e.locales[1]) <= RegistryPos(m)

\* C10: the plan does not depend on the order of the input locales:
\* reordering the input list changes neither the contents of grouped nor the
\* first member of a group, which is the earliest in the registry's declared
\* member order.
C10_OrderInsensitive ==
  planPc = "reordered" =>
    /\ Range(planOut2.groupedLocales) = Range(planOut.groupedLocales)
    /\ FirstIsRegistryEarliest(planOut)
    /\ FirstIsRegistryEarliest(planOut2)

\* ========================================================================
\* Properties of task construction and execution (Spec)
\* ========================================================================
\* the handler has built its task list in this invocation
TasksBuilt == pc # "idle" /\ Len(screenshots) > 0

\* member locales of group t whose output for screenshot sh is pending: all
\* of them without skipExisting, else those whose raw file did not exist when
\* the invocation began
PendingMembers(t, sh) ==
  {m \in Range(MapGet(plan.localeMapping, t)) :
     ~input.skipExisting \/ RawPath(m, sh.type, sh.filename) \notin DOMAIN files0}

TasksFor(t, sh) ==
  {k \in 1..Len(tasks) :
     tasks[k].targetLocale = t /\ tasks[k].sourcePath = sh.fullPath}

CallsFor(k) == {e \in 1..Len(events) : events[e].kind = "call" /\ events[e].task = k}

\* C2: the task list holds exactly one task for each (target group key,
\* source screenshot) pair with at least one pending member output path and
\* none for any other pair; a run calls the backend at most once per pair;
\* without skipExisting there are |targets| x |screenshots| tasks, each with
\* one output path per planned member locale of its group.
C2_OneTaskPerPendingPair ==
  TasksBuilt =>
    /\ \A t \in Range(plan.targets), sh \in Range(screenshots) :
         /\ Cardinality(TasksFor(t, sh)) = IF PendingMembers(t, sh) # {} THEN 1 ELSE 0
         /\ \A k \in TasksFor(t, sh) :
              /\ Range(tasks[k].outputPaths) =
                   {RawPath(m, sh.type, sh.filename) : m \in PendingMembers(t, sh)}
              /\ NoDup(tasks[k].outputPaths)
              /\ Cardinality(CallsFor(k)) <= 1
    /\ \A k \in 1..Len(tasks) :
         \E t \in Range(plan.targets), sh \in Range(screenshots) : k \in TasksFor(t, sh)
    /\ ~input.skipExisting =>
         /\ Len(tasks) = Len(plan.targets) * Len(screenshots)
         /\ \A k \in 1..Len(tasks) :
              Len(tasks[k].outputPaths) =
                Len(MapGet(plan.localeMapping, tasks[k].targetLocale))

\* a second invocation with skipExisting whose list lacks a finished pair
\* and holds a task narrowed to the one member still pending
C2_Witness ==
  /\ TasksBuilt /\ input.skipExisting /\ run = 2
  /\ Len(plan.targets) = 2 /\ Len(screenshots) = 2
  /\ Len(tasks) \in 1..3
  /\ \E k \in 1..Len(tasks) :
       /\ Len(tasks[k].outputPaths) = 1
       /\ Len(MapGet(plan.localeMapping, tasks[k].targetLocale)) = 2

Attempted ==
  LET started == SelectSeq(progressLog, LAMBDA ev : ev.status = "translating")
  IN [k \in 1..Len(started) |-> started[k].current]

FailedTasks ==
  LET ended == SelectSeq(progressLog, LAMBDA ev : ev.status = "failed")
  IN [k \in 1..Len(ended) |-> ended[k].current]

\* C4: a failed task never aborts the batch: every task is attempted exactly
\* once, in list order; at the end successful + failed is the number of
\* tasks and the error list has one entry per failed task, with that task's
\* source path and an error message.
C4_FailuresDoNotAbort ==
  /\ i > 0 => pc # "aborted"
  /\ i > 0 => Attempted = [k \in 1..i |-> k]
  /\ result.kind = "summary" =>
       /\ i = Len(tasks)
       /\ successful + failed = Len(tasks)
       /\ Len(errors) = failed
       /\ Len(FailedTasks) = failed
       /\ \A k \in 1..Len(errors) :
            /\ errors[k].path = tasks[FailedTasks[k]].sourcePath
            /\ errors[k].error # ""

\* the first task failed and a later one was translated
C4_Witness ==
  /\ result.kind = "summary" /\ Len(tasks) >= 3
  /\ failed >= 1 /\ successful >= 1
  /\ FailedTasks[1] = 1

Completed == {ev.current : ev \in {e \in Range(progressLog) : e.status = "completed"}}

\* C5: a task is counted successful only when the one image its single
\* backend call returned has been written to every one of its output paths.
C5_OneImageFannedOut ==
  /\ successful = Cardinality(Completed)
  /\ \A k \in Completed :
       /\ Cardinality(CallsFor(k)) = 1
       /\ \A e \in CallsFor(k) :
            \A w \in 1..Len(tasks[k].outputPaths) :
              /\ tasks[k].outputPaths[w] \in DOMAIN files
              /\ files[tasks[k].outputPaths[w]] = Translated(events[e].id)
              /\ \E x \in 1..Len(events) :
                   events[x] = Event("write", k, events[e].id, w)

\* a task with two output paths was counted successful
C5_Witness ==
  \E k \in Completed : Len(tasks[k].outputPaths) = 2

CallAt == {e \in 1..Len(events) : events[e].kind = "call"}

\* C6: backend calls are sequential and never retried: at most one call is
\* outstanding, calls follow task-list order with at most one per task, and
\* a cooldown lies between every call and the next.
C6_SequentialCalls ==
  /\ outstanding \in {0, 1}
  /\ outstanding = 1 <=> pc = "awaiting"
  /\ \A a, b \in CallAt :
       a < b =>
         /\ events[a].task < events[b].task
         /\ \E c \in (a + 1)..(b - 1) : events[c].kind = "cooldown"

\* a call that failed, its cooldown, then the next task's call
C6_Witness ==
  /\ failed >= 1
  /\ \E a, b \in CallAt :
       /\ a < b
       /\ events[a].task \in Range(FailedTasks)
       /\ events[b].task = events[a].task + 1

\* C7: a dry run builds and reports the task list and returns without
\* calling the backend, creating a directory or writing a file.
C7_DryRunReadOnly ==
  input.dryRun =>
    /\ files = files0 /\ dirs = dirs0
    /\ events = <<>> /\ outstanding = 0 /\ ncalls = 0
    /\ pc # "aborted"
    /\ (pc = "done" /\ Len(tasks) > 0) => result.kind = "dry-run"

\* a dry run returned the preview of four tasks
C7_Witness ==
  pc = "done" /\ result.kind = "dry-run" /\ Len(tasks) = 4

\* C9: the primary locale is no member of any localeMapping list, is not in
\* skipped or grouped, no task has an output path in the primary locale's
\* screenshot directory, and the source screenshots keep their content.
C9_PrimaryNeverTarget ==
  /\ ~Includes(plan.skippedLocales, input.primaryLocale)
  /\ ~Includes(plan.groupedLocales, input.primaryLocale)
  /\ \A e \in Range(plan.localeMapping) : ~Includes(e.locales, input.primaryLocale)
  /\ \A k \in 1..Len(tasks) :
       \A w \in 1..Len(tasks[k].outputPaths) :
         tasks[k].outputPaths[w].locale # input.primaryLocale
  /\ \A p \in DOMAIN files :
       p.locale = input.primaryLocale => files[p] = SourceContent

\* the primary locale's own group is a target (for another member) and a
\* task of that group wrote its output
C9_Witness ==
  /\ Includes(plan.targets, getGeminiLocale(input.primaryLocale))
  /\ \E k \in Completed : tasks[k].targetLocale = getGeminiLocale(input.primaryLocale)

\* ========================================================================
\* Crashes, ownership of output paths, rollback
\* ========================================================================
\* every output path the plan of this invocation covers
PlannedPaths ==
  {RawPath(m, sh.type, sh.filename) :
     m \in UNION {Range(e.locales) : e \in Range(plan.localeMapping)},
     sh \in Range(screenshots)}

\* C11: after a crash at any point of a run, the re-invocation with
\* skipExisting=true keeps the outputs completed before the crash in place
\* and does not translate them again, carries out the remaining work, and
\* every output file present after the resumed run is a complete translated
\* image.
C11_ResumeAfterCrash ==
  (run >= 2 /\ prev.kind = "crashed" /\ input.skipExisting /\ pc # "idle") =>
    /\ \A p \in DOMAIN files0 :
         files0[p].kind = "translated" => files[p] = files0[p]
    /\ \A k \in 1..Len(tasks) :
         \A w \in 1..Len(tasks[k].outputPaths) :
           tasks[k].outputPaths[w] \notin DOMAIN files0
    /\ (pc = "done" /\ failed = 0) =>
         /\ PlannedPaths \subseteq DOMAIN files
         /\ \A p \in DOMAIN files : p.raw => files[p].kind = "translated"

\* the path a write event of this invocation wrote
WrittenPath(e) == tasks[events[e].task].outputPaths[events[e].slot]

WriteAt == {e \in 1..Len(events) : events[e].kind = "write"}

\* C12: two distinct tasks of a task list have disjoint sets of output
\* paths and no output path is the source path of a task, so no file is
\* written by two tasks of a run.
C12_DisjointOutputPaths ==
  /\ \A a, b \in 1..Len(tasks) :
       /\ a # b => Range(tasks[a].outputPaths) \cap Range(tasks[b].outputPaths) = {}
       /\ tasks[b].sourcePath \notin Range(tasks[a].outputPaths)
  /\ \A k \in 1..Len(tasks) : NoDup(tasks[k].outputPaths)
  /\ \A x, y \in WriteAt :
       WrittenPath(x) = WrittenPath(y) => x = y

\* the phone and the tablet screenshot of one name were both written for
\* one locale
C12_Witness ==
  \E x, y \in WriteAt :
    /\ WrittenPath(x).locale = WrittenPath(y).locale
    /\ WrittenPath(x).name = WrittenPath(y).name
    /\ WrittenPath(x).type = "phone" /\ WrittenPath(y).type = "tablet"

\* C13: nothing is rolled back: every file a run has written stays in place
\* with the image that was written, through later failures and including the
\* paths a task wrote before it failed itself; no file or directory that
\* was there when the run began is removed.
C13_NothingRolledBack ==
  /\ \A e \in WriteAt :
       /\ WrittenPath(e) \in DOMAIN files
       /\ files[WrittenPath(e)] = Translated(events[e].id)
  /\ DOMAIN files0 \subseteq DOMAIN files
  /\ dirs0 \subseteq dirs

\* a task wrote its first output path, failed at the second, and the run
\* went on to its summary
C13_Witness ==
  /\ result.kind = "summary" /\ failed >= 1 /\ successful >= 1
  /\ \E e \in WriteAt : Includes(FailedTasks, events[e].task)

\* ========================================================================
\* Scenarios
\* ========================================================================
\* the tasks of target key t whose outputs were all written
CompletedFor(t) == {k \in Completed : tasks[k].targetLocale = t}

\* C14 as stated: with source en-US and target locales es-ES, es-MX and
\* fr-FR the plan has the single key es-MX covering es-ES and es-MX, and
\* the one image of a screenshot is written to both locales' paths.
C14_EsMxIsGroupMember ==
  (input.allLocales = <<"en-US", "es-ES", "es-MX", "fr-FR">> /\ pc # "idle") =>
    /\ Range(MapGet(plan.localeMapping, "es-MX")) = {"es-ES", "es-MX"}
    /\ \A k \in CompletedFor("es-MX") :
         {tasks[k].outputPaths[w].locale : w \in 1..Len(tasks[k].outputPaths)}
           = {"es-ES", "es-MX"}

\* C14 amended: es-MX is the key of the group of es-419, es-ES and es-US and
\* no member of it. With source en-US and target locales es-ES, es-MX and
\* fr-FR the plan skips es-MX and has key es-MX covering es-ES alone, next to
\* key fr-FR. With es-ES and es-419 among the targets the single key es-MX
\* covers both: each screenshot has at most one task and one backend call
\* for the key, and its image is written to every pending path of the two
\* locales.
C14_EsMxIsGroupKey ==
  /\ getGeminiLocale("es-MX") = Null
  /\ getOutputLocales("es-MX") = <<"es-419", "es-ES", "es-US">>
  /\ (input.allLocales = <<"en-US", "es-ES", "es-MX", "fr-FR">> /\ pc # "idle"
        /\ input.requestedTargets = <<>>) =>
       /\ plan.targets = <<"es-MX", "fr-FR">>
       /\ plan.skippedLocales = <<"es-MX">>
       /\ MapGet(plan.localeMapping, "es-MX") = <<"es-ES">>
       /\ \A k \in 1..Len(tasks) :
            \A w \in 1..Len(tasks[k].outputPaths) :
              tasks[k].outputPaths[w].locale # "es-MX"
  /\ (input.allLocales = <<"en-US", "es-ES", "es-419", "ko-KR">> /\ pc # "idle"
        /\ input.requestedTargets = <<>>) =>
       /\ Range(MapGet(plan.localeMapping, "es-MX")) = {"es-ES", "es-419"}
       /\ Cardinality({x \in 1..Len(plan.targets) : plan.targets[x] = "es-MX"}) = 1
       /\ \A sh \in Range(screenshots) :
            /\ Cardinality(TasksFor("es-MX", sh)) <= 1
            /\ ~input.skipExisting =>
                 \A k \in TasksFor("es-MX", sh) :
                   Range(tasks[k].outputPaths) =
                     {RawPath("es-ES", sh.type, sh.filename),
                      RawPath("es-419", sh.type, sh.filename)}
       /\ \A k \in CompletedFor("es-MX") :
            /\ Cardinality(CallsFor(k)) = 1
            /\ \A w \in 1..Len(tasks[k].outputPaths) :
                 \E e \in CallsFor(k) :
                   files[tasks[k].outputPaths[w]] = Translated(events[e].id)

\* the scenario ran to its summary: the es-MX task wrote es-ES only, es-MX
\* was skipped
C14_Witness ==
  /\ input.allLocales = <<"en-US", "es-ES", "es-MX", "fr-FR">>
  /\ result.kind = "summary" /\ failed = 0
  /\ \E k \in CompletedFor("es-MX") :
       /\ Len(tasks[k].outputPaths) = 1
       /\ tasks[k].outputPaths[1].locale = "es-ES"
  /\ Includes(plan.skippedLocales, "es-MX")

\* the locales the plan writes for
PlannedMembers == UNION {Range(e.locales) : e \in Range(plan.localeMapping)}

Holders(ts, path) == {k \in 1..Len(ts) : Includes(ts[k].outputPaths, path)}

\* the task list of the single-stage localize tool on the same tree and plan
LocalizeTasks ==
  buildLocalizeTasks(files, screenshots, input.primaryLocale, plan.targets,
                     plan.localeMapping, input.skipExisting)

\* phone/1.png of the primary locale was scanned and ko-KR is planned
KoreanCase ==
  /\ pc # "idle" /\ input.skipExisting
  /\ "ko-KR" \in PlannedMembers
  /\ \E sh \in Range(screenshots) : sh.type = "phone" /\ sh.filename = ShotName(1)

\* C15 as stated: when ko-KR/phone/1.png exists, the task list of translate
\* has no output for that screenshot under ko-KR and has one for every other
\* pending locale.
C15_FinalFileExcludesTask ==
  (KoreanCase /\ SourcePath("ko-KR", "phone", ShotName(1)) \in DOMAIN files) =>
    /\ \A k \in 1..Len(tasks) :
         \A w \in 1..Len(tasks[k].outputPaths) :
           ~(/\ tasks[k].outputPaths[w].locale = "ko-KR"
             /\ tasks[k].outputPaths[w].type = "phone"
             /\ tasks[k].outputPaths[w].name = ShotName(1))
    /\ \A m \in PlannedMembers \ {"ko-KR"} :
         RawPath(m, "phone", ShotName(1)) \notin DOMAIN files
           => Holders(tasks, RawPath(m, "phone", ShotName(1))) # {}

\* C15 amended: the file that excludes the ko-KR output is the one the tool
\* itself writes. For translate that is ko-KR/phone/raw/1.png: when it
\* exists no task holds it, when it does not exist exactly one task holds it
\* whether or not ko-KR/phone/1.png exists, and every other locale whose raw
\* file is missing is held by exactly one task. For the single-stage
\* localize tool the same holds of ko-KR/phone/1.png.
C15_OwnOutputExcludesTask ==
  KoreanCase =>
    /\ \A m \in PlannedMembers :
         Cardinality(Holders(tasks, RawPath(m, "phone", ShotName(1)))) =
           IF RawPath(m, "phone", ShotName(1)) \in DOMAIN files0 THEN 0 ELSE 1
    /\ \A m \in PlannedMembers :
         Cardinality(Holders(LocalizeTasks, SourcePath(m, "phone", ShotName(1)))) =
           IF SourcePath(m, "phone", ShotName(1)) \in DOMAIN files0 THEN 0 ELSE 1

\* ko-KR/phone/raw/1.png exists, the task list leaves it out and holds the
\* same screenshot for another locale
C15_Witness ==
  /\ KoreanCase /\ pc = "done"
  /\ RawPath("ko-KR", "phone", ShotName(1)) \in DOMAIN files
  /\ SourcePath("ko-KR", "phone", ShotName(1)) \notin DOMAIN files
  /\ Holders(tasks, RawPath("ko-KR", "phone", ShotName(1))) = {}
  /\ Holders(tasks, RawPath("fr-FR", "phone", ShotName(1))) # {}
  /\ Holders(LocalizeTasks, SourcePath("ko-KR", "phone", ShotName(1))) # {}

\* ========================================================================
\* Requested targets outside the product (SpecPlan)
\* ========================================================================
\* the plan in the shape getTargetLocales returns it
AsPlan(p) ==
  [targets |-> p.translatableLocales, skippedLocales |-> p.skippedLocales,
   groupedLocales |-> p.groupedLocales, localeMapping |-> p.localeMapping]

\* C16: a requested target locale that is not a locale of the product is
\* named in the planner's warning, the plan is the plan of the remaining
\* requested locales, and the planner returns.
C16_InvalidTargetsReported ==
  (planPc # "input" /\ Len(planIn.requestedTargets) > 0) =>
    LET valid == SelectSeq(planIn.requestedTargets,
                           LAMBDA t : Includes(planIn.allLocales, t))
        rest == SelectSeq(valid, LAMBDA t : t # planIn.primaryLocale)
    IN /\ Range(planWarn) = Range(planIn.requestedTargets) \ Range(planIn.allLocales)
       /\ planOut = AsPlan(prepareLocalesForTranslation(rest, planIn.primaryLocale))
       /\ \A t \in Range(planWarn) :
            /\ ~Includes(planOut.skippedLocales, t)
            /\ \A e \in Range(planOut.localeMapping) : ~Includes(e.locales, t)

\* xx-YY was requested with two locales of the product, it was reported and
\* the two were planned as one group
C16_Witness ==
  /\ planPc = "planned"
  /\ planIn.requestedTargets = <<"es-ES", "xx-YY", "es-419">>
  /\ planWarn = <<"xx-YY">>
  /\ planOut.targets = <<"es-MX">>
  /\ MapGet(planOut.localeMapping, "es-MX") = <<"es-ES", "es-419">>

\* ========================================================================
\* The preview of a dry run (SpecDryRun)
\* ========================================================================
\* the (heading, file) pairs a preview lists, as a list
PreviewPairs(pv) ==
  Flatten([h \in 1..Len(pv) |->
    [e \in 1..Len(pv[h].entries) |->
       [locale |-> pv[h].locale, deviceType |-> pv[h].entries[e].deviceType,
        filename |-> pv[h].entries[e].filename]]])

\* the locales the caller asks to translate into
AskedLocales ==
  LocalesToProcess(input.allLocales, input.primaryLocale, input.requestedTargets)

\* the screenshots of the primary locale
SourceShots == {p \in DOMAIN files : p.locale = input.primaryLocale /\ ~p.raw}

TwoByTwo == Len(AskedLocales) = 2 /\ Cardinality(SourceShots) = 2

\* C17 as stated: a dry run over 2 target locales and 2 source screenshots
\* lists exactly 4 (locale, file) pairs.
C17_FourPairs ==
  (pc = "done" /\ input.dryRun /\ TwoByTwo) =>
    Len(PreviewPairs(result.preview)) = 4

\* C17 amended: the preview of a dry run lists one (group key, file) pair
\* per task of the task list. Over 2 target locales and 2 source
\* screenshots these are exactly 4, 2 under each key, when the two locales
\* have different translation groups and no output of theirs is left out as
\* existing; two locales of one group give 2 pairs, a locale without a
\* group none.
C17_PairPerTask ==
  (pc = "done" /\ input.dryRun) =>
    LET pairs == PreviewPairs(result.preview)
    IN /\ Len(pairs) = Len(tasks)
       /\ NoDup(pairs)
       /\ Range(pairs) = {[locale |-> tasks[k].targetLocale,
                            deviceType |-> tasks[k].deviceType,
                            filename |-> tasks[k].filename] : k \in 1..Len(tasks)}
       /\ (/\ TwoByTwo
           /\ getGeminiLocale(AskedLocales[1]) # Null
           /\ getGeminiLocale(AskedLocales[2]) # Null
           /\ getGeminiLocale(AskedLocales[1]) # getGeminiLocale(AskedLocales[2])
           /\ ~input.skipExisting \/ PlannedPaths \cap DOMAIN files = {})
            => /\ result.kind = "dry-run"
               /\ Len(pairs) = 4
               /\ Len(result.preview) = 2
               /\ \A h \in 1..2 : Len(result.preview[h].entries) = 2
       /\ (/\ TwoByTwo
           /\ getGeminiLocale(AskedLocales[1]) # Null
           /\ getGeminiLocale(AskedLocales[1]) = getGeminiLocale(AskedLocales[2]))
            => Len(pairs) <= 2

\* the preview of ko-KR and fr-FR over two screenshots
C17_Witness ==
  /\ pc = "done" /\ result.kind = "dry-run" /\ TwoByTwo
  /\ AskedLocales = <<"ko-KR", "fr-FR">>
  /\ Len(PreviewPairs(result.preview)) = 4

\* ========================================================================
\* Targets, fatal errors, progress (Spec)
\* ========================================================================
\* C18: the primary locale is never a translation target: no entry of
\* targets and no task's targetLocale equals the primary locale, and no
\* backend call translates the source locale into itself.
C18_PrimaryNeverTargetKey ==
  /\ ~Includes(plan.targets, input.primaryLocale)
  /\ \A k \in 1..Len(tasks) :
       /\ tasks[k].targetLocale # input.primaryLocale
       /\ tasks[k].targetLocale # tasks[k].sourceLocale
  /\ \A e \in CallAt :
       tasks[events[e].task].targetLocale # tasks[events[e].task].sourceLocale

\* the tasks whose failure was a failed write of an output file
WriteFailures ==
  {FailedTasks[k] : k \in {x \in 1..Len(errors) : errors[x].error \in WriteErrorMessages}}

\* C19: a fatal error of a run, a directory that cannot be created or an
\* output file that cannot be written, aborts the remaining tasks of that
\* run: no task after the failing one is attempted, and the files already
\* written stay as they are.
C19_FatalErrorsAbort ==
  /\ pc = "aborted" => (i = 0 /\ files = files0 /\ events = <<>>)
  /\ \A j \in WriteFailures :
       /\ i = j
       /\ \A e \in 1..Len(events) : events[e].kind \in {"call", "write"} => events[e].task <= j
  /\ \A e \in WriteAt :
       /\ WrittenPath(e) \in DOMAIN files
       /\ files[WrittenPath(e)] = Translated(events[e].id)

\* the log a loop over n tasks has handed to onProgress after m events
ExpectedStatus(m, ev) ==
  IF m % 2 = 1 THEN ev.status = "translating"
  ELSE ev.status \in {"completed", "failed"}

\* C20: over n tasks the progress callback receives, for each task in list
\* order, exactly two events with current = i and total = n: first
\* translating, then completed or failed; current never decreases.
C20_TwoEventsPerTask ==
  /\ Len(progressLog) \in
       IF pc \in {"awaiting", "writing"} THEN {2 * i - 1}
       ELSE IF pc = "crashed" THEN {2 * i - 1, 2 * i}
       ELSE {2 * i}
  /\ \A m \in 1..Len(progressLog) :
       /\ progressLog[m].current = (m + 1) \div 2
       /\ progressLog[m].total = Len(tasks)
       /\ ExpectedStatus(m, progressLog[m])
       /\ progressLog[m].targetLocale = tasks[(m + 1) \div 2].targetLocale
       /\ progressLog[m].filename = tasks[(m + 1) \div 2].filename
       /\ progressLog[m].deviceType = tasks[(m + 1) \div 2].deviceType
  /\ result.kind = "summary" =>
       /\ Len(progressLog) = 2 * Len(tasks)
       /\ Cardinality({m \in 1..Len(progressLog) : progressLog[m].status = "completed"})
            = successful
       /\ Cardinality({m \in 1..Len(progressLog) : progressLog[m].status = "failed"})
            = failed

\* a run over four tasks reported eight events, one of them a failure
C20_Witness ==
  /\ result.kind = "summary" /\ Len(tasks) = 4
  /\ Len(progressLog) = 8
  /\ progressLog[4].status = "failed" /\ progressLog[8].status = "completed"


\* ========================================================================
\* Image dimensions and resizing (image-resizer.util.ts), step 7 of
\* localize-screenshots and the resize-screenshots tool (SpecResize)
\* ========================================================================
MaxPairs == 2

Dim(w, h) == [width |-> w, height |-> h]

\* App Store screenshot dimensions by device type
SCREENSHOT_DIMENSIONS == [phone |-> Dim(1242, 2688), tablet |-> Dim(2048, 2732)]

\* DEVICE_ASPECT_RATIOS over GEMINI_ASPECT_RATIOS: the 2K size of "9:16" and "3:4"
GEMINI_ASPECT_RATIOS == [phone |-> Dim(1536, 2752), tablet |-> Dim(1792, 2400)]

\* sizes of the source screenshots explored: the App Store size and, for
\* phones, the size of the 5.5 inch display
SourceSizes(type) ==
  IF type = "phone" THEN {SCREENSHOT_DIMENSIONS.phone, Dim(1242, 2208)}
  ELSE {SCREENSHOT_DIMENSIONS.tablet}

\* sizes of the images the backend returns: its own 2K size, or the App Store size
ResponseSizes(type) == {GEMINI_ASPECT_RATIOS[type], SCREENSHOT_DIMENSIONS[type]}

\* a complete image file: its size, what it pictures and the size of the
\* pictured content inside it (the rest is padding)
Picture(d, of) ==
  [kind |-> "image", width |-> d.width, height |-> d.height, of |-> of,
   contentWidth |-> d.width, contentHeight |-> d.height]

\* a file whose write did not finish
Truncated == [kind |-> "partial"]

\* getImageDimensions: sharp(imagePath).metadata(); throws on a file it cannot read
CanReadDimensions(fs, path) == path \in DOMAIN fs /\ fs[path].kind = "image"

getImageDimensions(fs, path) == Dim(fs[path].width, fs[path].height)

needsResizeAlways(sourceDimensions, translatedDimensions) == TRUE

needsResizeWidthOnly(sourceDimensions, translatedDimensions) ==
  sourceDimensions.width # translatedDimensions.width

\* lines 161-163
needsResize(sourceDimensions, translatedDimensions) ==
  \/ sourceDimensions.width # translatedDimensions.width
  \/ sourceDimensions.height # translatedDimensions.height

\* a / b rounded to the nearest integer
RoundDiv(a, b) == (2 * a + b) \div (2 * b)

ResizeStretch(img, targetDimensions) ==
  [kind |-> "image", width |-> targetDimensions.width,
   height |-> targetDimensions.height, of |-> img.of,
   contentWidth |-> targetDimensions.width,
   contentHeight |-> targetDimensions.height]

\* sharp(inputPath).resize(width, height, {fit: "contain"}).flatten().png():
\* the input scaled by the smaller of the two ratios, centred on a canvas of
\* the target size
ResizeContain(img, targetDimensions) ==
  LET byWidth == targetDimensions.width * img.height
                   <= targetDimensions.height * img.width
  IN [kind |-> "image", width |-> targetDimensions.width,
      height |-> targetDimensions.height, of |-> img.of,
      contentWidth |-> IF byWidth THEN targetDimensions.width
                       ELSE RoundDiv(img.width * targetDimensions.height, img.height),
      contentHeight |-> IF byWidth
                        THEN RoundDiv(img.height * targetDimensions.width, img.width)
                        ELSE targetDimensions.height]

TmpPathInPlace(outputPath) == outputPath

\* outputPath + ".tmp"
TmpPath(outputPath) ==
  [outputPath EXCEPT !.name = outputPath.name \o <<".", "t", "m", "p">>]

\* the file tree with path holding img
PutFile(fs, path, img) ==
  [q \in DOMAIN fs \cup {path} |-> IF q = path THEN img ELSE fs[q]]

\* fs.renameSync(from, to)
RenameFile(fs, from, to) ==
  [q \in (DOMAIN fs \ {from}) \cup {to} |-> IF q = to THEN fs[from] ELSE fs[q]]

\* products of the localize-screenshots runs explored
LocalizeProducts == { <<"en-US", "ko-KR">>, <<"en-US", "es-ES", "es-419">> }

\* the source tree: n phone and t tablet screenshots of the sizes sz assigns
SourcePictures(primaryLocale, n, t, sz) ==
  [p \in DOMAIN SourceFiles(primaryLocale, n, t) |-> Picture(sz[p], "source")]

\* buildResizeTasks (resize-screenshots.ts, lines 180-259), skipExisting false:
\* for every locale with raw images, a task for each raw image that has a
\* source screenshot of the same device type and file name
buildResizeTasks(fs, sourceScreenshots, rawLocales) ==
  Flatten([l \in 1..Len(rawLocales) |->
    Flatten([k \in 1..Len(sourceScreenshots) |->
      LET sh == sourceScreenshots[k]
          rawPath == RawPath(rawLocales[l], sh.type, sh.filename)
      IN IF rawPath \notin DOMAIN fs THEN <<>>
         ELSE << [rawPath |-> rawPath,
                  outputPath |-> SourcePath(rawLocales[l], sh.type, sh.filename),
                  sourceReferencePath |-> sh.fullPath,
                  locale |-> rawLocales[l], deviceType |-> sh.type,
                  filename |-> sh.filename] >>])])

\* a run of localize-screenshots on a product without translated screenshots
InitLocalize ==
  /\ mode = "localize"
  /\ \E a \in LocalizeProducts, n \in 0..MaxPairs, t \in 0..MaxPairs :
       /\ n + t >= 1 /\ n + t <= MaxPairs
       /\ \E sz \in [DOMAIN SourceFiles(a[1], n, t) ->
                       SourceSizes("phone") \cup SourceSizes("tablet")] :
            /\ \A p \in DOMAIN sz : sz[p] \in SourceSizes(p.type)
            /\ imgs = SourcePictures(a[1], n, t, sz)
       /\ LET localePlan == getTargetLocales(a, a[1], <<>>)
              shots == scanLocaleScreenshots(imgs, SourceDirs(a[1], n, t), a[1])
          IN rtasks = buildLocalizeTasks(imgs, shots, a[1], localePlan.targets,
                                         localePlan.localeMapping, TRUE)
  /\ imgs0 = imgs
  /\ resizePairs = <<>>
  /\ rpc = "translate" /\ ri = 1
  /\ rcur = NoCall /\ rres = NoBatch /\ rlog = <<>>

\* a run of resize-screenshots after translate-screenshots left raw images of
\* the sizes rz assigns; old final images are in place at the paths of old
InitResizeTool ==
  /\ mode = "resize"
  /\ \E a \in LocalizeProducts, n \in 0..MaxPairs, t \in 0..MaxPairs :
       /\ n + t >= 1 /\ n + t <= MaxPairs
       /\ LET sources == DOMAIN SourceFiles(a[1], n, t)
              l == a[2]
              raws == {RawPath(l, p.type, p.name) : p \in sources}
              finals == {SourcePath(l, p.type, p.name) : p \in sources}
          IN \E sz \in [sources -> SourceSizes("phone") \cup SourceSizes("tablet")],
                rz \in [raws -> ResponseSizes("phone") \cup ResponseSizes("tablet")],
                old \in {{}, finals} :
               /\ \A p \in sources : sz[p] \in SourceSizes(p.type)
               /\ \A p \in raws : rz[p] \in ResponseSizes(p.type)
               /\ imgs = [p \in sources \cup raws \cup old |->
                            IF p \in sources THEN Picture(sz[p], "source")
                            ELSE IF p \in raws THEN Picture(rz[p], "translated")
                            ELSE Picture(GEMINI_ASPECT_RATIOS[p.type], "old")]
               /\ rtasks = buildResizeTasks(imgs,
                             scanLocaleScreenshots(imgs, SourceDirs(a[1], n, t), a[1]),
                             <<l>>)
  /\ imgs0 = imgs
  /\ resizePairs = <<>>
  /\ rpc = "fromRaw" /\ ri = 1
  /\ rcur = NoCall /\ rres = NoBatch /\ rlog = <<>>

InitResize ==
  /\ PipelineIdle
  /\ PlanIdle
  /\ ColorIdle
  /\ ScanIdle
  /\ ConvIdle
  /\ InitLocalize \/ InitResizeTool

\* the failures so far: failed translations and caught errors of the batch
ResizeFaults == rres.failed + Len(rres.errors)

\* the tree after translateImage wrote the first w of the task's output paths
WrittenPrefix(fs, outputPaths, w, img) ==
  [q \in DOMAIN fs \cup {outputPaths[k] : k \in 1..w} |->
     IF \E k \in 1..w : outputPaths[k] = q THEN img ELSE fs[q]]

\* step 6 of localize-screenshots, one task of translateImagesWithProgress:
\* translateImage returns success after writing every output path
TranslateTaskSucceeds ==
  /\ mode = "localize" /\ rpc = "translate" /\ ri <= Len(rtasks)
  /\ \E d \in ResponseSizes(rtasks[ri].deviceType) :
       imgs' = WrittenPrefix(imgs, rtasks[ri].outputPaths,
                             Len(rtasks[ri].outputPaths), Picture(d, "translated"))
  /\ rres' = [rres EXCEPT !.successful = @ + 1]
  /\ ri' = ri + 1
  /\ UNCHANGED <<mode, imgs0, rtasks, resizePairs, rpc, rcur, rlog>>
  /\ UNCHANGED <<runVars, planVars, colorVars, scanVars, convVars>>

\* translateImage returns a failure: no image in the response, or a write that
\* throws after w output paths were written, leaving nothing or an unfinished
\* file at the next one
TranslateTaskFails ==
  /\ mode = "localize" /\ rpc = "translate" /\ ri <= Len(rtasks)
  /\ ResizeFaults <= MaxFaults
  /\ \E d \in ResponseSizes(rtasks[ri].deviceType),
        w \in 0..(Len(rtasks[ri].outputPaths) - 1), unfinished \in BOOLEAN :
       LET written == WrittenPrefix(imgs, rtasks[ri].outputPaths, w,
                                    Picture(d, "translated"))
       IN imgs' = IF unfinished
                  THEN PutFile(written, rtasks[ri].outputPaths[w + 1], Truncated)
                  ELSE written
  /\ rres' = [rres EXCEPT !.failed = @ + 1]
  /\ ri' = ri + 1
  /\ UNCHANGED <<mode, imgs0, rtasks, resizePairs, rpc, rcur, rlog>>
  /\ UNCHANGED <<runVars, planVars, colorVars, scanVars, convVars>>

\* part_002 lines 567-584: with a successful task, the pairs of every output
\* path that exists
Step7CollectPairs ==
  /\ mode = "localize" /\ rpc = "translate" /\ ri > Len(rtasks)
  /\ rres.successful > 0
  /\ resizePairs' =
       Flatten([k \in 1..Len(rtasks) |->
         LET there == SelectSeq(rtasks[k].outputPaths,
                                LAMBDA outputPath : outputPath \in DOMAIN imgs)
         IN [w \in 1..Len(there) |->
               [sourcePath |-> rtasks[k].sourcePath, translatedPath |-> there[w]]]])
  /\ rpc' = "validate" /\ ri' = 1
  /\ UNCHANGED <<mode, imgs, imgs0, rtasks, rcur, rres, rlog>>
  /\ UNCHANGED <<runVars, planVars, colorVars, scanVars, convVars>>

\* part_002 line 567: without a successful task step 7 is left out
Step7Skipped ==
  /\ mode = "localize" /\ rpc = "translate" /\ ri > Len(rtasks)
  /\ rres.successful = 0
  /\ rpc' = "returned"
  /\ UNCHANGED <<mode, imgs, imgs0, rtasks, resizePairs, ri, rcur, rres, rlog>>
  /\ UNCHANGED <<runVars, planVars, colorVars, scanVars, convVars>>

ResizeError(path, message) == [path |-> path, error |-> message]

\* batchValidateAndResize lines 190-199 and validateAndResizeImage lines
\* 158-163: skip a missing file, read both sizes, compare them
ValidateBegin ==
  /\ rpc = "validate" /\ ri <= Len(resizePairs)
  /\ LET pair == resizePairs[ri]
     IN IF pair.translatedPath \notin DOMAIN imgs
        THEN /\ ri' = ri + 1
             /\ UNCHANGED <<rpc, rcur, rres, rlog>>
        ELSE IF ~CanReadDimensions(imgs, pair.sourcePath)
                \/ ~CanReadDimensions(imgs, pair.translatedPath)
        THEN /\ rres' = [rres EXCEPT !.errors =
                           Append(@, ResizeError(pair.translatedPath,
                                                 "unsupported image format"))]
             /\ ri' = ri + 1
             /\ UNCHANGED <<rpc, rcur, rlog>>
        ELSE LET sourceDimensions == getImageDimensions(imgs, pair.sourcePath)
                 translatedDimensions == getImageDimensions(imgs, pair.translatedPath)
             IN IF needsResize(sourceDimensions, translatedDimensions)
                THEN /\ rcur' = [op |-> "validateAndResizeImage",
                                 inputPath |-> pair.translatedPath,
                                 outputPath |-> pair.translatedPath,
                                 errorPath |-> pair.translatedPath,
                                 sourcePath |-> pair.sourcePath,
                                 targetDimensions |-> sourceDimensions,
                                 inputDimensions |-> translatedDimensions]
                     /\ rpc' = "resize"
                     /\ UNCHANGED <<ri, rres, rlog>>
                ELSE /\ rlog' = Append(rlog,
                                  [op |-> "validateAndResizeImage",
                                   sourcePath |-> pair.sourcePath,
                                   translatedPath |-> pair.translatedPath,
                                   resized |-> FALSE,
                                   sourceDimensions |-> sourceDimensions,
                                   translatedDimensions |-> translatedDimensions,
                                   finalDimensions |-> sourceDimensions])
                     /\ ri' = ri + 1
                     /\ UNCHANGED <<rpc, rcur, rres>>
  /\ UNCHANGED <<mode, imgs, imgs0, rtasks, resizePairs>>
  /\ UNCHANGED <<runVars, planVars, colorVars, scanVars, convVars>>

\* batchResizeFromRaw lines 291-315: skip a missing raw image, take the fixed
\* size of the device type, read the raw size
FromRawBegin ==
  /\ rpc = "fromRaw" /\ ri <= Len(rtasks)
  /\ LET task == rtasks[ri]
     IN IF task.rawPath \notin DOMAIN imgs
        THEN /\ rres' = [rres EXCEPT !.skipped = @ + 1]
             /\ ri' = ri + 1
             /\ UNCHANGED <<rpc, rcur>>
        ELSE IF ~CanReadDimensions(imgs, task.rawPath)
        THEN /\ rres' = [rres EXCEPT !.errors =
                           Append(@, ResizeError(task.rawPath,
                                                 "unsupported image format"))]
             /\ ri' = ri + 1
             /\ UNCHANGED <<rpc, rcur>>
        ELSE /\ rcur' = [op |-> "batchResizeFromRaw",
                         inputPath |-> task.rawPath,
                         outputPath |-> task.outputPath,
                         errorPath |-> task.rawPath,
                         sourcePath |-> task.sourceReferencePath,
                         targetDimensions |-> SCREENSHOT_DIMENSIONS[task.deviceType],
                         inputDimensions |-> getImageDimensions(imgs, task.rawPath)]
             /\ rpc' = "resize"
             /\ UNCHANGED <<ri, rres>>
  /\ UNCHANGED <<mode, imgs, imgs0, rtasks, resizePairs, rlog>>
  /\ UNCHANGED <<runVars, planVars, colorVars, scanVars, convVars>>

\* resizeImage lines 132-140: toFile creates outputPath + ".tmp" and starts
\* writing it
ResizeOpenTmp ==
  /\ rpc = "resize"
  /\ imgs' = PutFile(imgs, TmpPath(rcur.outputPath), Truncated)
  /\ rpc' = "tmp"
  /\ UNCHANGED <<mode, imgs0, rtasks, resizePairs, ri, rcur, rres, rlog>>
  /\ UNCHANGED <<runVars, planVars, colorVars, scanVars, convVars>>

\* toFile finishes: the temporary file holds the whole resized image
ResizeCloseTmp ==
  /\ rpc = "tmp"
  /\ imgs' = PutFile(imgs, TmpPath(rcur.outputPath),
                     ResizeContain(imgs[rcur.inputPath], rcur.targetDimensions))
  /\ rpc' = "rename"
  /\ UNCHANGED <<mode, imgs0, rtasks, resizePairs, ri, rcur, rres, rlog>>
  /\ UNCHANGED <<runVars, planVars, colorVars, scanVars, convVars>>

\* the position of the batch loop a call returns or throws to
LoopOf(op) == IF op = "validateAndResizeImage" THEN "validate" ELSE "fromRaw"

\* sharp or toFile throws, before the temporary file exists or while it is
\* written; the batch catches it (lines 200-203, resize-screenshots.ts 334-340)
ResizeToFileThrows ==
  /\ rpc \in {"resize", "tmp"}
  /\ ResizeFaults <= MaxFaults
  /\ rres' = [rres EXCEPT !.errors =
                Append(@, ResizeError(rcur.errorPath,
                                      "ENOSPC: no space left on device"))]
  /\ ri' = ri + 1
  /\ rpc' = LoopOf(rcur.op)
  /\ rcur' = NoCall
  /\ UNCHANGED <<mode, imgs, imgs0, rtasks, resizePairs, rlog>>
  /\ UNCHANGED <<runVars, planVars, colorVars, scanVars, convVars>>

\* line 143: fs.renameSync(outputPath + ".tmp", outputPath); the call returns
\* and the batch counts it
ResizeRename ==
  /\ rpc = "rename"
  /\ imgs' = RenameFile(imgs, TmpPath(rcur.outputPath), rcur.outputPath)
  /\ rlog' = Append(rlog,
       IF rcur.op = "validateAndResizeImage"
       THEN [op |-> "validateAndResizeImage",
             sourcePath |-> rcur.sourcePath, translatedPath |-> rcur.outputPath,
             resized |-> TRUE,
             sourceDimensions |-> rcur.targetDimensions,
             translatedDimensions |-> rcur.inputDimensions,
             finalDimensions |-> rcur.targetDimensions]
       ELSE [op |-> "resizeImage",
             inputPath |-> rcur.inputPath, outputPath |-> rcur.outputPath,
             targetDimensions |-> rcur.targetDimensions,
             source |-> rcur.targetDimensions, raw |-> rcur.inputDimensions,
             final |-> rcur.targetDimensions])
  /\ rres' = [rres EXCEPT !.resized = @ + 1]
  /\ ri' = ri + 1
  /\ rpc' = LoopOf(rcur.op)
  /\ rcur' = NoCall
  /\ UNCHANGED <<mode, imgs0, rtasks, resizePairs>>
  /\ UNCHANGED <<runVars, planVars, colorVars, scanVars, convVars>>

\* renameSync throws
ResizeRenameThrows ==
  /\ rpc = "rename"
  /\ ResizeFaults <= MaxFaults
  /\ rres' = [rres EXCEPT !.errors =
                Append(@, ResizeError(rcur.errorPath, "EPERM: operation not permitted"))]
  /\ ri' = ri + 1
  /\ rpc' = LoopOf(rcur.op)
  /\ rcur' = NoCall
  /\ UNCHANGED <<mode, imgs, imgs0, rtasks, resizePairs, rlog>>
  /\ UNCHANGED <<runVars, planVars, colorVars, scanVars, convVars>>

\* the batch returns its counts and the handler its text
BatchReturns ==
  /\ \/ rpc = "validate" /\ ri > Len(resizePairs)
     \/ rpc = "fromRaw" /\ ri > Len(rtasks)
  /\ rpc' = "returned"
  /\ UNCHANGED <<mode, imgs, imgs0, rtasks, resizePairs, ri, rcur, rres, rlog>>
  /\ UNCHANGED <<runVars, planVars, colorVars, scanVars, convVars>>

NextResize ==
  \/ TranslateTaskSucceeds
  \/ TranslateTaskFails
  \/ Step7CollectPairs
  \/ Step7Skipped
  \/ ValidateBegin
  \/ FromRawBegin
  \/ ResizeOpenTmp
  \/ ResizeCloseTmp
  \/ ResizeToFileThrows
  \/ ResizeRename
  \/ ResizeRenameThrows
  \/ BatchReturns

SpecResize == InitResize /\ [][NextResize]_vars

\* ========================================================================
\* Properties of the resize stage (SpecResize)
\* ========================================================================
\* the returns of validateAndResizeImage so far
ValidateReturns ==
  {k \in 1..Len(rlog) : rlog[k].op = "validateAndResizeImage"}

\* the image translateImage wrote, of the size a return reports it found
FoundImage(e) == Picture(e.translatedDimensions, "translated")

\* C21: validateAndResizeImage resizes the translated file in place exactly
\* when its width or height differs from the source screenshot's and leaves it
\* untouched otherwise; the returned resized flag is true exactly when the
\* resize happened, and finalDimensions is the size of the source screenshot.
C21_ResizedIffDifferent ==
  \A k \in ValidateReturns :
    LET e == rlog[k]
        sourceNow == getImageDimensions(imgs, e.sourcePath)
        fileNow == imgs[e.translatedPath]
    IN /\ e.sourceDimensions = sourceNow
       /\ e.finalDimensions = sourceNow
       /\ e.resized <=> (e.translatedDimensions # sourceNow)
       /\ e.resized => /\ fileNow = ResizeContain(FoundImage(e), sourceNow)
                       /\ Dim(fileNow.width, fileNow.height) = sourceNow
       /\ ~e.resized => fileNow = FoundImage(e)

\* one run in which one file was resized and another was left as it was, the
\* resized one differing from its source in height only
C21_Witness ==
  /\ rpc = "returned"
  /\ \E k, m \in ValidateReturns :
       /\ rlog[k].resized /\ ~rlog[m].resized
       /\ rlog[k].translatedDimensions.width = rlog[k].sourceDimensions.width

\* C22 as stated: validateAndResizeImage applied to an image that already has
\* the App Store size of its device type reports resized = false and leaves
\* the file unchanged.
C22_CanonicalSizeNotResized ==
  \A k \in ValidateReturns :
    LET e == rlog[k]
    IN e.translatedDimensions = SCREENSHOT_DIMENSIONS[e.translatedPath.type]
         => /\ ~e.resized
            /\ imgs[e.translatedPath] = FoundImage(e)

\* C22: validateAndResizeImage applied to an image that already has the size
\* of its source screenshot, whatever that size is, reports resized = false,
\* leaves the file unchanged and creates no temporary file; and the file a
\* call returns from always has the size of the source, so that a further
\* call on it would change nothing.
C22_SourceSizeNotResized ==
  \A k \in ValidateReturns :
    LET e == rlog[k]
        sourceNow == getImageDimensions(imgs, e.sourcePath)
    IN /\ e.translatedDimensions = sourceNow
         => /\ ~e.resized
            /\ imgs[e.translatedPath] = FoundImage(e)
            /\ TmpPath(e.translatedPath) \notin DOMAIN imgs
       /\ ~needsResize(sourceNow, getImageDimensions(imgs, e.translatedPath))

\* a call that found an image of its source's size, and a call that found an
\* image of the App Store size whose source has another size
C22_Witness ==
  \E k, m \in ValidateReturns :
    /\ rlog[k].translatedDimensions = rlog[k].sourceDimensions
    /\ rlog[m].translatedDimensions = SCREENSHOT_DIMENSIONS[rlog[m].translatedPath.type]
    /\ rlog[m].sourceDimensions # rlog[m].translatedDimensions

\* the resizeImage calls that returned: the place of the output, the size asked
\* for and the size of the input
ResizeReturns ==
  {k \in 1..Len(rlog) : rlog[k].op = "resizeImage" \/ rlog[k].resized}

OutputOf(e) == IF e.op = "resizeImage" THEN e.outputPath ELSE e.translatedPath

TargetOf(e) == IF e.op = "resizeImage" THEN e.targetDimensions ELSE e.sourceDimensions

InputSizeOf(e) == IF e.op = "resizeImage" THEN e.raw ELSE e.translatedDimensions

Abs(x) == IF x < 0 THEN 0 - x ELSE x

Max(a, b) == IF a >= b THEN a ELSE b

SavedOutputs ==
  {q \in UNION {Range(rtasks[k].outputPaths) : k \in 1..Len(rtasks)} :
     q \in DOMAIN imgs /\ imgs[q].kind = "image"}

TaskHolding(q) == CHOOSE k \in 1..Len(rtasks) : Includes(rtasks[k].outputPaths, q)

\* C24: when a localize-screenshots run has returned, every translated
\* screenshot the run saved has the width and height of its source screenshot.
C24_SavedFilesMatchSource ==
  (mode = "localize" /\ rpc = "returned")
    => \A q \in SavedOutputs :
         getImageDimensions(imgs, q)
           = getImageDimensions(imgs, rtasks[TaskHolding(q)].sourcePath)

IsTmp(q) == EndsWith(q.name, <<".", "t", "m", "p">>)

InResizeStage == rpc \in {"validate", "fromRaw", "resize", "tmp", "rename"}

\* C25: resizeImage writes to outputPath + ".tmp" and renames it over the
\* output path: in every step of the resize stage a file other than a
\* temporary one either keeps its content or is the output path of the call in
\* work receiving, at the rename, the whole resized image; a call that throws
\* changes no such file.
C25_AtomicReplace ==
  [][InResizeStage =>
       \A q \in DOMAIN imgs \cup DOMAIN imgs' :
         \/ IsTmp(q)
         \/ q \in DOMAIN imgs /\ q \in DOMAIN imgs' /\ imgs'[q] = imgs[q]
         \/ /\ rpc = "rename" /\ q = rcur.outputPath
            /\ Len(rres'.errors) = Len(rres.errors)
            /\ q \in DOMAIN imgs'
            /\ imgs'[q] = ResizeContain(imgs[rcur.inputPath], rcur.targetDimensions)]_vars

\* an unfinished temporary file lies beside an output path that still holds
\* the whole image of an earlier run, after an earlier resize of the same run
\* has failed
C25_Witness ==
  /\ rpc = "tmp"
  /\ imgs[TmpPath(rcur.outputPath)] = Truncated
  /\ rcur.outputPath \in DOMAIN imgs
  /\ imgs[rcur.outputPath] = Picture(GEMINI_ASPECT_RATIOS[rcur.outputPath.type], "old")
  /\ Len(rres.errors) > 0

\* ========================================================================
\* Background colour detection (image-resizer.util.ts detectEdgeColor,
\* part_004 detectCornerColor) on bounded pixel samples (SpecColor)
\* ========================================================================
MaxSamples == 2

Grey(v) == [r |-> v, g |-> v, b |-> v]

\* pixels of the first sample: every grey level and some colours
FirstPixels ==
  {Grey(v) : v \in 0..255}
    \cup {[r |-> 255, g |-> 0, b |-> 120], [r |-> 247, g |-> 248, b |-> 8],
          [r |-> 12, g |-> 251, b |-> 252]}

\* pixels of the later samples
MorePixels == {Grey(0), Grey(250), Grey(255), [r |-> 255, g |-> 0, b |-> 120]}

\* Math.round(v / step) * step
Quantize(v, step) == RoundDiv(v, step) * step

QuantizePixel(p, step) ==
  [r |-> Quantize(p.r, step), g |-> Quantize(p.g, step), b |-> Quantize(p.b, step)]

\* the count the colorCounts map holds for the quantized colour c
CountOf(samples, c, step) ==
  Cardinality({k \in 1..Len(samples) : QuantizePixel(samples[k], step) = c})

\* the position at which c was inserted into colorCounts
InsertedAt(samples, c, step) ==
  CHOOSE k \in 1..Len(samples) :
    /\ QuantizePixel(samples[k], step) = c
    /\ \A j \in 1..(k - 1) : QuantizePixel(samples[j], step) # c

\* the most common quantized colour, the first inserted among equals; white
\* without samples
DominantColor(samples, step) ==
  LET colors == {QuantizePixel(samples[k], step) : k \in 1..Len(samples)}
  IN IF colors = {} THEN White
     ELSE CHOOSE c \in colors :
            \A d \in colors :
              \/ CountOf(samples, c, step) > CountOf(samples, d, step)
              \/ /\ CountOf(samples, c, step) = CountOf(samples, d, step)
                 /\ InsertedAt(samples, c, step) <= InsertedAt(samples, d, step)

detectEdgeColor(samples) == DominantColor(samples, 16)

detectCornerColor(samples) == DominantColor(samples, 8)

InitColor ==
  /\ PipelineIdle
  /\ PlanIdle
  /\ ResizeIdle
  /\ ScanIdle
  /\ ConvIdle
  /\ \E first \in FirstPixels, more \in SeqsUpTo(MorePixels, MaxSamples - 1) :
       colorIn = <<first>> \o more
  /\ colorOut = White
  /\ colorPc = "input"

DetectEdge ==
  /\ colorPc = "input"
  /\ colorOut' = detectEdgeColor(colorIn)
  /\ colorPc' = "edge"
  /\ UNCHANGED <<colorIn, runVars, planVars, resizeVars, scanVars, convVars>>

DetectCorner ==
  /\ colorPc = "input"
  /\ colorOut' = detectCornerColor(colorIn)
  /\ colorPc' = "corner"
  /\ UNCHANGED <<colorIn, runVars, planVars, resizeVars, scanVars, convVars>>

NextColor == DetectEdge \/ DetectCorner

SpecColor == InitColor /\ [][NextColor]_vars

\* C30: every channel of the colour the detection returns is an integer in
\* 0..255, for sampled pixels whose channels are in 0..255.
C30_ChannelsInRange ==
  colorPc \in {"edge", "corner"}
    => /\ colorOut.r \in 0..255
       /\ colorOut.g \in 0..255
       /\ colorOut.b \in 0..255

\* ========================================================================
\* Termination of a run (SpecLive): one invocation of the handler whose
\* pending steps are eventually taken, from its entry or from the return of
\* translateImagesWithProgress over a long task list
\* ========================================================================
MaxBatch == 7

\* the product of the long runs
BatchLocales == <<"en-US", "ko-KR">>

\* the handler at line 325, translateImagesWithProgress about to return after
\* n tasks of which the first f got a response without an image
InitAfterLoop ==
  \E n \in 1..MaxBatch, f \in 0..MaxBatch :
    /\ f <= n
    /\ input = [allLocales |-> BatchLocales, primaryLocale |-> "en-US",
                requestedTargets |-> <<>>, deviceTypes |-> DeviceTypes,
                dryRun |-> FALSE, skipExisting |-> TRUE]
    /\ files0 = SourceFiles("en-US", n, 0)
    /\ dirs0 = SourceDirs("en-US", n, 0)
    /\ plan = getTargetLocales(BatchLocales, "en-US", <<>>)
    /\ screenshots = scanLocaleScreenshots(files0, dirs0, "en-US")
    /\ tasks = buildTranslationTasks(files0, screenshots, "en-US", plan.targets,
                                     plan.localeMapping, TRUE)
    /\ files = [p \in DOMAIN files0 \cup {tasks[k].outputPaths[1] : k \in (f + 1)..n}
                  |-> IF p \in DOMAIN files0 THEN SourceContent
                      ELSE Translated(CHOOSE k \in (f + 1)..n :
                                        tasks[k].outputPaths[1] = p)]
    /\ dirs = DirsAfter(dirs0, AllOutputPaths(tasks), n)
    /\ errors = [k \in 1..f |-> [path |-> tasks[k].sourcePath,
                                 error |-> "No image data in Gemini response"]]
    /\ successful = n - f /\ failed = f
    /\ progressLog =
         Flatten([k \in 1..n |->
           <<ProgressEvent(k, "translating"),
             ProgressEvent(k, IF k <= f THEN "failed" ELSE "completed")>>])
    /\ events =
         Flatten([k \in 1..n |->
           <<Event("call", k, k, 0)>>
             \o (IF k <= f THEN <<>> ELSE <<Event("write", k, k, 1)>>)
             \o <<Event("cooldown", k, 0, 0)>>])
    /\ i = n /\ wi = 0 /\ image = (IF f < n THEN n ELSE 0)
    /\ outstanding = 0 /\ ncalls = n /\ faults = f
    /\ run = 1 /\ pc = "loop"
    /\ result = NoResult /\ prev = NoPrev

\* the handler at line 446, after steps 3 to 5 built the task list, on a
\* tree that holds the source screenshots only or, with them, the raw and
\* final images of every other locale from earlier sessions
InitBuilt ==
  /\ \E a \in ProductLocaleLists, r \in RequestChoices, d \in BOOLEAN, k \in BOOLEAN,
        n \in 0..MaxShots, t \in 0..MaxShots, full \in BOOLEAN :
       /\ n + t <= MaxShots
       /\ full => n + t > 0
       /\ input = [allLocales |-> a, primaryLocale |-> a[1], requestedTargets |-> r,
                   deviceTypes |-> DeviceTypes,
                   dryRun |-> d, skipExisting |-> k]
       /\ files = [p \in DOMAIN SourceFiles(a[1], n, t)
                          \cup (IF full THEN OutputPlaces(a, n, t) ELSE {}) |->
                     IF p \in DOMAIN SourceFiles(a[1], n, t) THEN SourceContent
                     ELSE Leftover]
       /\ dirs = SourceDirs(a[1], n, t)
                   \cup (IF full
                         THEN UNION {WithParents(DirName(p)) : p \in OutputPlaces(a, n, t)}
                         ELSE {})
  /\ plan = getTargetLocales(input.allLocales, input.primaryLocale,
                             input.requestedTargets)
  /\ screenshots =
       IF Len(plan.targets) = 0 THEN <<>>
       ELSE SelectSeq(scanLocaleScreenshots(files, dirs, input.primaryLocale),
                      LAMBDA sh : Includes(input.deviceTypes, sh.type))
  /\ tasks =
       IF Len(screenshots) = 0 THEN <<>>
       ELSE buildTranslationTasks(files, screenshots, input.primaryLocale,
                                  plan.targets, plan.localeMapping, input.skipExisting)
  /\ files0 = files /\ dirs0 = dirs
  /\ run = 1 /\ pc = "built"
  /\ i = 0 /\ wi = 0 /\ image = 0
  /\ successful = 0 /\ failed = 0 /\ errors = <<>>
  /\ progressLog = <<>> /\ events = <<>>
  /\ outstanding = 0 /\ ncalls = 0 /\ faults = 0
  /\ result = NoResult /\ prev = NoPrev

InitLive ==
  /\ PlanIdle
  /\ StageIdle
  /\ InitBuilt \/ InitAfterLoop

NextLive ==
  \/ ReturnNoTargets
  \/ ReturnNoScreenshots
  \/ ReturnAllTranslated
  \/ ReturnDryRun
  \/ EnsureDirsThrows
  \/ StartTranslations
  \/ BeginTaskThrows
  \/ BeginTaskCalls
  \/ RespondWithoutImage
  \/ RespondWithImage
  \/ WriteOutput
  \/ WriteOutputThrows
  \/ Cooldown
  \/ ReturnSummary

\* the event loop runs every continuation that is ready, and every backend
\* call returns or throws
SpecLive == InitLive /\ [][NextLive]_vars /\ WF_vars(NextLive)

\* the summary of lines 536-553: the two counts, the first five errors and
\* the number of the others
SummaryShape ==
  /\ result.successful = successful /\ result.failed = failed
  /\ successful + failed = Len(tasks)
  /\ failed = Len(errors)
  /\ Len(result.shown) <= 5
  /\ result.shown = SubSeq(errors, 1, Len(result.shown))
  /\ result.more = failed - Len(result.shown)
  /\ result.more > 0 => Len(result.shown) = 5
  /\ \A k \in 1..Len(result.shown) :
       /\ result.shown[k].error # ""
       /\ \E t \in 1..Len(tasks) : tasks[t].sourcePath = result.shown[k].path

\* C26 as stated: every run over a task list ends by returning the summary.
C26_AlwaysSummary ==
  [](pc = "built" /\ Len(tasks) > 0 /\ ~input.dryRun => <>(result.kind = "summary"))

\* C26: every run terminates; a run whose output directories could be made
\* goes through its whole task list and returns the summary with the counts of
\* successful and failed tasks, at most five (file, reason) entries and the
\* count of the failures not listed; a run in which creating an output
\* directory throws ends with that error, before any task and without a summary.
C26_EndsWithSummaryOrThrow ==
  /\ <>(pc \in {"done", "aborted"})
  /\ [](pc = "loop" => <>(pc = "done" /\ result.kind = "summary"))
  /\ [](result.kind = "summary" => SummaryShape)
  /\ [](pc = "aborted" => result.kind = "threw" /\ i = 0 /\ events = <<>>)

\* a summary over seven tasks of which six failed: five entries and one more
C26_Witness ==
  /\ pc = "done" /\ result.kind = "summary"
  /\ Len(tasks) = 7 /\ result.failed = 6 /\ result.successful = 1
  /\ Len(result.shown) = 5 /\ result.more = 1

\* ========================================================================
\* The scan of a locale's screenshots, the screenshotNumbers filter and the
\* tasks built from the result (SpecScan)
\* ========================================================================
MaxFiles == 3

\* names of the files a device directory may hold
FileNames ==
  { <<"1", ".", "p", "n", "g">>,
    <<"2", ".", "P", "N", "G">>,
    <<"1", "0", ".", "j", "p", "g">>,
    <<"0", "2", ".", "j", "p", "e", "g">>,
    <<"0", ".", "p", "n", "g">>,
    <<"c", "o", "v", "e", "r", ".", "p", "n", "g">>,
    <<"a", "3", ".", "w", "e", "b", "p">>,
    <<"3", ".", "t", "x", "t">>,
    <<"4", "p", "n", "g">> }

\* the names of the files of a device directory
NamesIn(fs, locale, type) ==
  {p.name : p \in {q \in DOMAIN fs : q.locale = locale /\ q.type = type /\ ~q.raw}}

\* fs.readdirSync(deviceDir): the names in an order the file system chooses
Listings(names) == {s \in [1..Cardinality(names) -> names] : Range(s) = names}

\* one step of the stable sort by numA - numB: x goes behind the names whose
\* number is not larger
InsertByNumber(sorted, x) ==
  LET k == Cardinality({j \in 1..Len(sorted) : FirstNumber(sorted[j]) <= FirstNumber(x)})
  IN SubSeq(sorted, 1, k) \o <<x>> \o SubSeq(sorted, k + 1, Len(sorted))

\* .sort((a, b) => numA - numB) of lines 626-630, which keeps the order of
\* names with equal numbers
RECURSIVE SortListing(_)
SortListing(list) ==
  IF list = <<>> THEN <<>>
  ELSE InsertByNumber(SortListing(SubSeq(list, 1, Len(list) - 1)), list[Len(list)])

\* scanLocaleScreenshots on directories that readdirSync lists in the orders
\* readdir gives
scanLocaleScreenshotsListed(ds, locale, readdir) ==
  IF <<locale>> \notin ds THEN <<>>
  ELSE Flatten([d \in 1..Len(DeviceTypes) |->
         IF <<locale, DeviceTypes[d]>> \notin ds THEN <<>>
         ELSE LET sorted == SortListing(SelectSeq(readdir[DeviceTypes[d]], HasImageExt))
              IN [k \in 1..Len(sorted) |->
                    [type |-> DeviceTypes[d], filename |-> sorted[k],
                     fullPath |-> SourcePath(locale, DeviceTypes[d], sorted[k])]]])

\* the number of digits a name begins with
LeadingDigits(name) ==
  Cardinality({k \in 1..Len(name) : \A j \in 1..k : IsDigit(name[j])})

\* s.filename.match(/^(\d+)\./)
MatchesNumberDot(name) ==
  /\ LeadingDigits(name) >= 1
  /\ LeadingDigits(name) < Len(name)
  /\ name[LeadingDigits(name) + 1] = "."

\* the values of the screenshotNumbers argument explored (positive integers,
\* lines 70-77); a device type the object leaves out has the empty list
NumberChoices ==
  { [kind |-> "undefined"],
    [kind |-> "array", numbers |-> <<>>],
    [kind |-> "array", numbers |-> <<1, 10>>],
    [kind |-> "object", phone |-> <<2, 3>>, tablet |-> <<>>] }

\* lines 371-392 of the handler: the filter by screenshot numbers
FilterByNumbers(shots, screenshotNumbers) ==
  IF screenshotNumbers.kind = "undefined" THEN shots
  ELSE SelectSeq(shots, LAMBDA sh :
         /\ MatchesNumberDot(sh.filename)
         /\ LET numbersForDevice ==
                  IF screenshotNumbers.kind = "array" THEN screenshotNumbers.numbers
                  ELSE screenshotNumbers[sh.type]
            IN \/ Len(numbersForDevice) = 0
               \/ Includes(numbersForDevice, ParseDigits(sh.filename, 1, 0)))

\* a product of en-US and ko-KR whose en-US tree holds up to MaxFiles files;
\* en-US or ko-KR is the primary locale that is scanned
InitScan ==
  /\ PipelineIdle
  /\ PlanIdle
  /\ ResizeIdle
  /\ ColorIdle
  /\ ConvIdle
  /\ \E phone \in SUBSET FileNames, tablet \in SUBSET FileNames,
        hasPhone \in BOOLEAN, hasTablet \in BOOLEAN, locale \in Range(BatchLocales),
        screenshotNumbers \in NumberChoices :
       /\ Cardinality(phone) + Cardinality(tablet) <= MaxFiles
       /\ phone # {} => hasPhone
       /\ tablet # {} => hasTablet
       /\ scanIn =
            [fs |-> [p \in {SourcePath("en-US", "phone", n) : n \in phone}
                           \cup {SourcePath("en-US", "tablet", n) : n \in tablet}
                       |-> SourceContent],
             ds |-> {<<"en-US">>} \cup (IF hasPhone THEN {<<"en-US", "phone">>} ELSE {})
                                  \cup (IF hasTablet THEN {<<"en-US", "tablet">>} ELSE {}),
             locale |-> locale,
             screenshotNumbers |-> screenshotNumbers]
  /\ scanOut = NoScan
  /\ scanPc = "input"

\* line 364: scanLocaleScreenshots(appInfo.slug, primaryLocale)
ScanLocale ==
  /\ scanPc = "input"
  /\ \E ph \in Listings(NamesIn(scanIn.fs, scanIn.locale, "phone")),
        tb \in Listings(NamesIn(scanIn.fs, scanIn.locale, "tablet")) :
       scanOut' = [scanOut EXCEPT !.screenshots =
                     scanLocaleScreenshotsListed(scanIn.ds, scanIn.locale,
                                                 [phone |-> ph, tablet |-> tb])]
  /\ scanPc' = "scanned"
  /\ UNCHANGED <<scanIn, runVars, planVars, resizeVars, colorVars, convVars>>

\* lines 366-444: the device type filter, the screenshotNumbers filter and
\* buildTranslationTasks over what is left
FilterAndBuild ==
  /\ scanPc = "scanned"
  /\ LET filteredScreenshots ==
           FilterByNumbers(SelectSeq(scanOut.screenshots,
                                     LAMBDA sh : Includes(DeviceTypes, sh.type)),
                           scanIn.screenshotNumbers)
         localePlan == getTargetLocales(BatchLocales, scanIn.locale, <<>>)
     IN scanOut' = [scanOut EXCEPT
                      !.filtered = filteredScreenshots,
                      !.tasks = IF Len(filteredScreenshots) = 0 THEN <<>>
                                ELSE buildTranslationTasks(scanIn.fs, filteredScreenshots,
                                       scanIn.locale, localePlan.targets,
                                       localePlan.localeMapping, FALSE)]
  /\ scanPc' = "built"
  /\ UNCHANGED <<scanIn, runVars, planVars, resizeVars, colorVars, convVars>>

NextScan ==
  \/ ScanLocale
  \/ FilterAndBuild

SpecScan == InitScan /\ [][NextScan]_vars

\* the number a file name begins with
LeadingNumber(name) == ParseDigits(name, 1, 0)

\* the image files of the scanned locale's device directories
ImagePathsOf(fs, ds, locale) ==
  {p \in DOMAIN fs : /\ p.locale = locale /\ ~p.raw
                     /\ <<locale>> \in ds /\ <<locale, p.type>> \in ds
                     /\ HasImageExt(p.name)}

\* C27: the scan of a locale returns each image file of its phone and tablet
\* directories once, every phone screenshot before every tablet screenshot
\* and, within a device type, the files whose names begin with a number in
\* ascending order of that number; when the locale directory is absent it
\* returns the empty list.
C27_OrderedByDeviceThenNumber ==
  scanPc \in {"scanned", "built"} =>
    LET out == scanOut.screenshots
    IN /\ \A a, b \in 1..Len(out) :
            a < b =>
              /\ out[a].type = "tablet" => out[b].type = "tablet"
              /\ (/\ out[a].type = out[b].type
                  /\ LeadingDigits(out[a].filename) >= 1
                  /\ LeadingDigits(out[b].filename) >= 1)
                   => LeadingNumber(out[a].filename) <= LeadingNumber(out[b].filename)
       /\ NoDup(out)
       /\ {out[k].fullPath : k \in 1..Len(out)}
            = ImagePathsOf(scanIn.fs, scanIn.ds, scanIn.locale)
       /\ \A k \in 1..Len(out) :
            out[k].fullPath = SourcePath(scanIn.locale, out[k].type, out[k].filename)
       /\ <<scanIn.locale>> \notin scanIn.ds => out = <<>>

\* the phone directory held 10.jpg, 2.PNG and 1.png: they are listed as 1, 2, 10
C27_Witness ==
  /\ scanPc = "scanned"
  /\ Len(scanOut.screenshots) = 3
  /\ scanOut.screenshots[1].filename = <<"1", ".", "p", "n", "g">>
  /\ scanOut.screenshots[2].filename = <<"2", ".", "P", "N", "G">>
  /\ scanOut.screenshots[3].filename = <<"1", "0", ".", "j", "p", "g">>
  /\ \A k \in 1..3 : scanOut.screenshots[k].type = "phone"

\* a scan of ko-KR, which has no directory, returned the empty list
C27_AbsentWitness ==
  /\ scanPc = "scanned" /\ scanIn.locale = "ko-KR"
  /\ scanIn.fs # << >> /\ scanOut.screenshots = <<>>

\* the name is a positive integer followed by .png, .jpg, .jpeg or .webp
WellNamed(name) ==
  /\ LeadingDigits(name) >= 1
  /\ LeadingNumber(name) > 0
  /\ \E ext \in { <<".", "p", "n", "g">>, <<".", "j", "p", "g">>,
                  <<".", "j", "p", "e", "g">>, <<".", "w", "e", "b", "p">> } :
       /\ Len(name) = LeadingDigits(name) + Len(ext)
       /\ EndsWith(name, ext)

\* C28 as stated: a file is listed as a screenshot only if its name begins
\* with a positive integer followed by an allow-listed raster extension;
\* every other file of a device directory is left out of the inventory and
\* never becomes a translation task.
C28_OnlyNumberedImagesListed ==
  /\ \A k \in 1..Len(scanOut.screenshots) : WellNamed(scanOut.screenshots[k].filename)
  /\ \A k \in 1..Len(scanOut.tasks) : WellNamed(scanOut.tasks[k].filename)

\* what the scan and the handler do: a file is listed exactly when its name
\* ends with an allow-listed extension, and it becomes a task unless
\* screenshotNumbers is given and the name does not begin with digits and a dot
\* or its number is not among the numbers asked for
C28_ListedIffExtension ==
  scanPc = "built" =>
    /\ {scanOut.screenshots[k].filename : k \in 1..Len(scanOut.screenshots)}
         = {p.name : p \in ImagePathsOf(scanIn.fs, scanIn.ds, scanIn.locale)}
    /\ scanIn.screenshotNumbers.kind = "undefined" =>
         {scanOut.tasks[k].sourcePath : k \in 1..Len(scanOut.tasks)}
           = ImagePathsOf(scanIn.fs, scanIn.ds, scanIn.locale)
    /\ scanIn.screenshotNumbers.kind # "undefined" =>
         \A k \in 1..Len(scanOut.tasks) : MatchesNumberDot(scanOut.tasks[k].filename)

\* ========================================================================
\* Unified locales and store locale codes (SpecLocale): the keys of the
\* config data converted for a push and converted back
\* ========================================================================
MaxKeys == 2

\* a table in which Traditional Chinese shares the App Store code of
\* Simplified Chinese
SUPPORTED_LOCALES_SharedChinese ==
  << [unified |-> "en-US", appStore |-> "en-US", googlePlay |-> "en-US"],
     [unified |-> "ko-KR", appStore |-> "ko", googlePlay |-> "ko-KR"],
     [unified |-> "ja-JP", appStore |-> "ja", googlePlay |-> "ja-JP"],
     [unified |-> "zh-CN", appStore |-> "zh-Hans", googlePlay |-> "zh-CN"],
     [unified |-> "zh-TW", appStore |-> "zh-Hans", googlePlay |-> "zh-CN"],
     [unified |-> "de-DE", appStore |-> "de-DE", googlePlay |-> "de-DE"],
     [unified |-> "fr-FR", appStore |-> "fr-FR", googlePlay |-> "fr-FR"],
     [unified |-> "es-ES", appStore |-> "es-ES", googlePlay |-> "es-ES"],
     [unified |-> "pt-BR", appStore |-> "pt-BR", googlePlay |-> "pt-BR"] >>

\* the rows of the table of supported locales
SUPPORTED_LOCALES ==
  << [unified |-> "en-US", appStore |-> "en-US", googlePlay |-> "en-US"],
     [unified |-> "ko-KR", appStore |-> "ko", googlePlay |-> "ko-KR"],
     [unified |-> "ja-JP", appStore |-> "ja", googlePlay |-> "ja-JP"],
     [unified |-> "zh-CN", appStore |-> "zh-Hans", googlePlay |-> "zh-CN"],
     [unified |-> "zh-TW", appStore |-> "zh-Hant", googlePlay |-> "zh-TW"],
     [unified |-> "de-DE", appStore |-> "de-DE", googlePlay |-> "de-DE"],
     [unified |-> "fr-FR", appStore |-> "fr-FR", googlePlay |-> "fr-FR"],
     [unified |-> "es-ES", appStore |-> "es-ES", googlePlay |-> "es-ES"],
     [unified |-> "pt-BR", appStore |-> "pt-BR", googlePlay |-> "pt-BR"] >>

Stores == {"appStore", "googlePlay"}

\* unifiedToAppStore / unifiedToGooglePlay: the store's code of the row of the
\* unified locale, null for a locale without a row
unifiedToStore(store, unifiedLocale) ==
  LET hits == {k \in 1..Len(SUPPORTED_LOCALES) :
                 SUPPORTED_LOCALES[k].unified = unifiedLocale}
  IN IF hits = {} THEN Null
     ELSE SUPPORTED_LOCALES[CHOOSE k \in hits : \A j \in hits : k <= j][store]

\* appStoreToUnified / googlePlayToUnified: the unified locale of the first row
\* with the store code, null for a code the store does not know
storeToUnified(store, storeLocale) ==
  LET hits == {k \in 1..Len(SUPPORTED_LOCALES) :
                 SUPPORTED_LOCALES[k][store] = storeLocale}
  IN IF hits = {} THEN Null
     ELSE SUPPORTED_LOCALES[CHOOSE k \in hits : \A j \in hits : k <= j].unified

\* the locale keys a config file may carry: those of the table and one that
\* no store supports
ConfigLocales == {SUPPORTED_LOCALES[k].unified : k \in 1..Len(SUPPORTED_LOCALES)} \cup {"xx-YY"}

\* convertedLocales[storeLocale] = ...: an object keeps a key at the place of
\* its first assignment
SetKey(keys, k) == IF Includes(keys, k) THEN keys ELSE Append(keys, k)

\* prepareAsoDataForPush, the loop over Object.entries(locales): the keys of
\* convertedLocales
RECURSIVE ConvertedKeys(_, _)
ConvertedKeys(store, locales) ==
  IF locales = <<>> THEN <<>>
  ELSE LET before == ConvertedKeys(store, SubSeq(locales, 1, Len(locales) - 1))
           storeLocale == unifiedToStore(store, locales[Len(locales)])
       IN IF storeLocale # Null THEN SetKey(before, storeLocale) ELSE before

InitLocale ==
  /\ PipelineIdle
  /\ PlanIdle
  /\ ResizeIdle
  /\ ColorIdle
  /\ ScanIdle
  /\ \E store \in Stores, locales \in SeqsUpTo(ConfigLocales, MaxKeys) :
       /\ NoDup(locales)
       /\ convIn = [store |-> store, locales |-> locales]
  /\ convOut = <<>>
  /\ convPc = "config"

\* the config data are prepared for the push to the store
PrepareForPush ==
  /\ convPc = "config"
  /\ convOut' = [storeKeys |-> ConvertedKeys(convIn.store, convIn.locales), back |-> <<>>]
  /\ convPc' = "pushed"
  /\ UNCHANGED <<convIn, runVars, planVars, resizeVars, colorVars, scanVars>>

\* the store's keys are converted back to unified locales
ConvertBack ==
  /\ convPc = "pushed"
  /\ convOut' = [convOut EXCEPT !.back =
                   [k \in 1..Len(convOut.storeKeys) |->
                      storeToUnified(convIn.store, convOut.storeKeys[k])]]
  /\ convPc' = "pulled"
  /\ UNCHANGED <<convIn, runVars, planVars, resizeVars, colorVars, scanVars>>

NextLocale ==
  \/ PrepareForPush
  \/ ConvertBack

SpecLocale == InitLocale /\ [][NextLocale]_vars

\* the locales of the config data that the store has a code for
SupportedKeys == SelectSeq(convIn.locales, LAMBDA l : unifiedToStore(convIn.store, l) # Null)

====
